---- MODULE Spec2Model ----
(***************************************************************************)
(* A model of the Chan-theory signal pipeline (ChangLunStrategy) and of    *)
(* the multi-strategy fusion engine (StrategyTree / BaseStrategy).         *)
(*                                                                         *)
(* Numbers.  The code computes in floating point; the model computes the   *)
(* same expressions exactly, in fixed point:                               *)
(*   - a confidence is an integer number of hundredths (ConfScale);        *)
(*   - a source weight is an integer number of 1/WScale;                   *)
(*   - a quotient (a normalised score, a stroke strength) is kept as its   *)
(*     numerator and its positive denominator and compared by cross        *)
(*     multiplication.                                                     *)
(***************************************************************************)
EXTENDS Integers, Sequences, FiniteSets, TLC

VARIABLES
    strategies,      \* StrategyTree.strategies: the registered sources, in order
    signal_history,  \* StrategyTree.signal_history
    signals,         \* what each source's calculate_signal returned in that pass
    composite,       \* what the last calculate_composite_signal returned
    passes,          \* number of optimize_weights passes run so far
    pc,              \* the call in progress, "tree" for the StrategyTree machine
    data,            \* the bars of the input series: [high, low], bar 0 first
    fractals,        \* _identify_fractals' result
    strokes,         \* _identify_strokes' result
    trend,           \* TrendDirection
    position,        \* RelativePosition
    buy_sell_points, \* _identify_buy_sell_points' result
    divergence,      \* _detect_divergence's result
    emotion,         \* _monitor_emotion_indicators' result
    final_signal,    \* _make_comprehensive_decision's result
    indicators,      \* the precomputed indicator columns of the input series
    outcome,         \* how the call in progress ended: returned or raised
    fusion,          \* a calculate_composite_signal pass run step by step: its locals
    adapt,           \* an optimize_weights pass run step by step: its position
    robot,           \* a TradingRobot: config.symbols, status, positions,
                     \* error_message and the trades counted
    orders,          \* the orders the robot method called last returned
                     \* (none from a method that returns none)
    called           \* the robot method called last, the fusions it called
                     \* and whether an exception was raised inside it

raceVars == <<fusion, adapt>>

treeVars == <<strategies, signal_history, signals, composite, passes, raceVars>>

chanVars == <<data, fractals, strokes, trend, position, buy_sell_points,
              divergence, emotion, final_signal, indicators, outcome>>

robotVars == <<robot, orders, called>>

vars == <<treeVars, pc, chanVars, robotVars>>

----------------------------------------------------------------------------
(* Bounds of the model *)

MaxStrategies == 2
MaxPasses == 1
MaxTrades == 1
MaxHistory == 1
MaxBars == 5
MaxPrice == 5
MaxFractals == 4
MaxStrokes == 4

----------------------------------------------------------------------------
(* Fixed point *)

RECURSIVE Pow10(_)
Pow10(n) == IF n = 0 THEN 1 ELSE 10 * Pow10(n - 1)

\* One unit of weight.  Initial weights are multiples of 0.1 and a pass
\* multiplies by 1.1 or 0.9, so MaxPasses passes need MaxPasses + 1 decimals.
WScale == Pow10(MaxPasses + 1)

ConfScale == 100

Min(a, b) == IF a <= b THEN a ELSE b
Max(a, b) == IF a >= b THEN a ELSE b

RECURSIVE Gcd(_, _)
Gcd(a, b) == IF b = 0 THEN a ELSE Gcd(b, a % b)

\* The quotient n / d (n >= 0, d > 0) in lowest terms.
Rat(n, d) == [num |-> n \div Gcd(n, d), den |-> d \div Gcd(n, d)]

\* q > h / 100, q >= h / 100, q <= h / 100
RatGt(q, h) == q.num * 100 > h * q.den
RatGe(q, h) == q.num * 100 >= h * q.den
RatLe(q, h) == q.num * 100 <= h * q.den

----------------------------------------------------------------------------
(* base_strategy.py *)

\* SignalStrength.value
WEAK == 1
MEDIUM == 2
STRONG == 3

\* Optional[TradingSignal]: None is the record NoSignal.
NoSignal == [signal_type |-> "NONE", strength |-> 0, confidence |-> Rat(0, 1)]

\* TradingSignal(signal_type, strength, confidence), confidence a quotient.
TradingSignal(t, s, c) == [signal_type |-> t, strength |-> s, confidence |-> c]

\* The weight bounds of adjust_weight: 0.1 and 2.0.
WeightFloor == WScale \div 10
WeightCap == 2 * WScale

\* BaseStrategy.__init__(name, weight): enabled, no metrics yet.  An absent
\* 'total_pnl' / 'trade_count' is trade_count = 0; an absent 'win_rate' is 0,
\* which is what get_win_rate returns for it.
NewStrategy(name, weight) ==
    [name |-> name, weight |-> weight, enabled |-> TRUE,
     total_pnl |-> 0, trade_count |-> 0, win_rate |-> 0]

\* update_performance rewarding a profit with a larger weight.
update_performance_reweighting(s, profit_loss) ==
    [s EXCEPT !.total_pnl = @ + profit_loss,
              !.trade_count = @ + 1,
              !.weight = IF profit_loss > 0 THEN (@ * 11) \div 10 ELSE @]

\* update_performance recording a win rate too: 1.0 after a profit, 0.0
\* after a loss.
update_performance_recording(s, profit_loss) ==
    [s EXCEPT !.total_pnl = @ + profit_loss,
              !.trade_count = @ + 1,
              !.win_rate = IF profit_loss > 0 THEN 100 ELSE 0]

\* BaseStrategy.update_performance(profit_loss)
update_performance(s, profit_loss) ==
    [s EXCEPT !.total_pnl = @ + profit_loss, !.trade_count = @ + 1]

\* BaseStrategy.get_win_rate(), in hundredths
get_win_rate(s) == s.win_rate

\* BaseStrategy.adjust_weight(performance_factor), the factor in tenths:
\* weight *= factor; weight = max(0.1, min(2.0, weight))
adjust_weight(s, factor) ==
    [s EXCEPT !.weight = Max(WeightFloor, Min(WeightCap, (s.weight * factor) \div 10))]

\* The first statement of adjust_weight: self.weight *= performance_factor.
multiply_weight(s, factor) == [s EXCEPT !.weight = (s.weight * factor) \div 10]

\* The second: self.weight = max(0.1, min(2.0, self.weight)).
clamp_weight(s) == [s EXCEPT !.weight = Max(WeightFloor, Min(WeightCap, s.weight))]

----------------------------------------------------------------------------
(* strategy_tree.py *)

risk_threshold == 60

\* optimize_one with the boundaries 0.6 and 0.4 adapting too.
optimize_one_inclusive(s) ==
    LET win_rate == get_win_rate(s)
    IN  IF win_rate >= 60 THEN adjust_weight(s, 11)
        ELSE IF win_rate <= 40 THEN adjust_weight(s, 9)
        ELSE s

\* optimize_weights, one source: > 0.6 grows by 1.1, < 0.4 shrinks by 0.9.
optimize_one(s) ==
    LET win_rate == get_win_rate(s)
    IN  IF win_rate > 60 THEN adjust_weight(s, 11)
        ELSE IF win_rate < 40 THEN adjust_weight(s, 9)
        ELSE s

\* The (signal, weight) pairs of the enabled sources that returned a signal,
\* in registration order (the first loop of calculate_composite_signal).
RECURSIVE Collect(_, _)
Collect(strats, sigs) ==
    IF strats = <<>> THEN <<>>
    ELSE LET s == Head(strats)
             g == Head(sigs)
             rest == Collect(Tail(strats), Tail(sigs))
         IN  IF s.enabled /\ g # NoSignal
             THEN <<[signal |-> g, weight |-> s.weight]>> \o rest
             ELSE rest

RECURSIVE TotalWeight(_)
TotalWeight(pairs) ==
    IF pairs = <<>> THEN 0 ELSE Head(pairs).weight + TotalWeight(Tail(pairs))

\* The three sums of the second loop, each in 1/(ConfScale*WScale):
\* weighted_confidence = signal.confidence * weight, in hundredths
WeightedConfidence(p) ==
    ((p.signal.confidence.num * ConfScale) \div p.signal.confidence.den) * p.weight

\* A signal's vote without its strength.
VoteUnweighted(p) == WeightedConfidence(p)

\* What a signal adds to the score of its type:
\* weighted_confidence * signal.strength.value
Vote(p) == WeightedConfidence(p) * p.signal.strength

RECURSIVE ScoreSum(_, _)
ScoreSum(pairs, t) ==
    IF pairs = <<>> THEN 0
    ELSE (IF Head(pairs).signal.signal_type = t THEN Vote(Head(pairs)) ELSE 0)
         + ScoreSum(Tail(pairs), t)

RECURSIVE ConfidenceSum(_)
ConfidenceSum(pairs) ==
    IF pairs = <<>> THEN 0
    ELSE WeightedConfidence(Head(pairs)) + ConfidenceSum(Tail(pairs))

\* A sum after "if total_weight > 0: sum /= total_weight".
Normalised(sum, total_weight) ==
    IF total_weight > 0 THEN Rat(sum, ConfScale * total_weight)
    ELSE Rat(sum, ConfScale * WScale)

\* A score at the threshold clearing it too.
ClearsInclusive(score) == RatGe(score, risk_threshold)

\* buy_score > self.risk_threshold
Clears(score) == RatGt(score, risk_threshold)

\* buy_score > 0.8 strong, > 0.7 medium, else the initial weak
StrengthOf(score) ==
    IF RatGt(score, 80) THEN STRONG
    ELSE IF RatGt(score, 70) THEN MEDIUM
    ELSE WEAK

\* calculate_composite_signal from its second loop on, over the pairs and the
\* total_weight the first loop collected: the signal type, strength,
\* confidence and scores (the entry it appends to signal_history when the
\* type is not HOLD).
FuseOver(pairs, total_weight) ==
    LET buy_score == Normalised(ScoreSum(pairs, "BUY"), total_weight)
        sell_score == Normalised(ScoreSum(pairs, "SELL"), total_weight)
        confidence_sum == Normalised(ConfidenceSum(pairs), total_weight)
        buy_gt_sell == ScoreSum(pairs, "BUY") > ScoreSum(pairs, "SELL")
        sell_gt_buy == ScoreSum(pairs, "SELL") > ScoreSum(pairs, "BUY")
        hold == [signal_type |-> "HOLD", strength |-> WEAK,
                 confidence |-> confidence_sum,
                 buy_score |-> buy_score, sell_score |-> sell_score]
    IN  IF pairs = <<>>
        THEN [hold EXCEPT !.confidence = Rat(0, 1)]
        ELSE IF buy_gt_sell /\ Clears(buy_score)
        THEN [hold EXCEPT !.signal_type = "BUY", !.strength = StrengthOf(buy_score)]
        ELSE IF sell_gt_buy /\ Clears(sell_score)
        THEN [hold EXCEPT !.signal_type = "SELL", !.strength = StrengthOf(sell_score)]
        ELSE hold

\* calculate_composite_signal up to its decision, the pass run in one piece:
\* each source's weight is the same at its two reads.
Fuse(strats, sigs) ==
    LET pairs == Collect(strats, sigs)
    IN  FuseOver(pairs, TotalWeight(pairs))

\* What calculate_composite_signal returns for a decision.
Returned(entry) ==
    IF entry.signal_type = "HOLD" THEN NoSignal
    ELSE TradingSignal(entry.signal_type, entry.strength, entry.confidence)

\* get_strategy_performance: a dict keyed by the sources' names, filled in
\* the order of the list, so that a later source replaces an earlier one of
\* the same name.
get_strategy_performance(ss) ==
    [name \in {ss[i].name : i \in 1..Len(ss)} |->
        LET strategy == ss[CHOOSE i \in 1..Len(ss) :
                              /\ ss[i].name = name
                              /\ \A j \in (i + 1)..Len(ss) : ss[j].name # name]
        IN  [weight |-> strategy.weight, enabled |-> strategy.enabled,
             metrics |-> [total_pnl |-> strategy.total_pnl,
                          trade_count |-> strategy.trade_count,
                          win_rate |-> strategy.win_rate]]]

\* The locals of a calculate_composite_signal pass run step by step: where it
\* is, the source at hand, the (signal, weight) pairs, total_weight, and
\* whether a step of an optimize_weights pass fell within it.
FusionState(phase, i, pairs, total_weight, overlapped) ==
    [phase |-> phase, i |-> i, pairs |-> pairs, total_weight |-> total_weight,
     overlapped |-> overlapped]

FusionIdle == FusionState("idle", 0, <<>>, 0, FALSE)

\* Where an optimize_weights pass run step by step is, and the source at hand.
AdaptState(phase, i) == [phase |-> phase, i |-> i]

AdaptIdle == AdaptState("idle", 0)

----------------------------------------------------------------------------
(* changlun_strategy.py *)

min_k_for_stroke == 5
rsi_overbought == 80
rsi_oversold == 20

\* data.iloc[i], i counted from 0
Bar(d, i) == d[i + 1]

\* A top that only has to reach the bar before it.
TopAtWeak(d, i) ==
    /\ Bar(d, i).high > Bar(d, i - 2).high /\ Bar(d, i).high >= Bar(d, i - 1).high
    /\ Bar(d, i).high > Bar(d, i + 1).high /\ Bar(d, i).high > Bar(d, i + 2).high

TopAt(d, i) ==
    /\ Bar(d, i).high > Bar(d, i - 2).high /\ Bar(d, i).high > Bar(d, i - 1).high
    /\ Bar(d, i).high > Bar(d, i + 1).high /\ Bar(d, i).high > Bar(d, i + 2).high

BottomAt(d, i) ==
    /\ Bar(d, i).low < Bar(d, i - 2).low /\ Bar(d, i).low < Bar(d, i - 1).low
    /\ Bar(d, i).low < Bar(d, i + 1).low /\ Bar(d, i).low < Bar(d, i + 2).low

Fractal(i, t, p) == [index |-> i, type |-> t, price |-> p]

\* The fractals the loop of _identify_fractals appends at the bars lo..hi, in
\* the order of the bars: at each bar a top, then a bottom.
RECURSIVE FractalsIn(_, _, _)
FractalsIn(d, lo, hi) ==
    IF lo > hi THEN <<>>
    ELSE IF lo = hi
    THEN (IF TopAt(d, lo) THEN <<Fractal(lo, "top", Bar(d, lo).high)>> ELSE <<>>)
         \o (IF BottomAt(d, lo) THEN <<Fractal(lo, "bottom", Bar(d, lo).low)>> ELSE <<>>)
    ELSE LET mid == (lo + hi) \div 2
         IN  FractalsIn(d, lo, mid) \o FractalsIn(d, mid + 1, hi)

\* The loop of _identify_fractals from bar i on: for i in range(2, len(data) - 2)
FractalsFrom(d, i) == FractalsIn(d, i, Len(d) - 3)

identify_fractals(d) == FractalsFrom(d, 2)

\* The stroke from current_fractal to next_fractal; its strength is the
\* quotient num / den, den the price of current_fractal.
Stroke(current_fractal, next_fractal) ==
    LET up == current_fractal.type = "bottom" /\ next_fractal.type = "top"
    IN  [start_fractal |-> current_fractal,
         end_fractal |-> next_fractal,
         direction |-> IF up THEN "up" ELSE "down",
         strength |-> [num |-> IF up THEN next_fractal.price - current_fractal.price
                               ELSE current_fractal.price - next_fractal.price,
                       den |-> current_fractal.price],
         start_index |-> current_fractal.index,
         end_index |-> next_fractal.index]

\* A stroke needing only the other type, whatever the gap.
FormsStrokeAnyGap(current_fractal, next_fractal) ==
    current_fractal.type # next_fractal.type

\* The test of _identify_strokes: the other type, and far enough.
FormsStroke(current_fractal, next_fractal) ==
    /\ current_fractal.type # next_fractal.type
    /\ next_fractal.index - current_fractal.index >= min_k_for_stroke

\* The loop without current_fractal = next_fractal: every stroke starts at
\* the first fractal.
RECURSIVE StrokesFromFixedAnchor(_, _)
StrokesFromFixedAnchor(current_fractal, rest) ==
    IF rest = <<>> THEN <<>>
    ELSE (IF FormsStroke(current_fractal, Head(rest))
          THEN <<Stroke(current_fractal, Head(rest))>> ELSE <<>>)
         \o StrokesFromFixedAnchor(current_fractal, Tail(rest))

\* The loop of _identify_strokes: for next_fractal in fractals[1:]
RECURSIVE StrokesFrom(_, _)
StrokesFrom(current_fractal, rest) ==
    IF rest = <<>> THEN <<>>
    ELSE LET next_fractal == Head(rest)
         IN  IF FormsStroke(current_fractal, next_fractal)
             THEN <<Stroke(current_fractal, next_fractal)>>
                  \o StrokesFrom(next_fractal, Tail(rest))
             ELSE StrokesFrom(current_fractal, Tail(rest))

identify_strokes(f) ==
    IF Len(f) < 2 THEN <<>> ELSE StrokesFrom(Head(f), Tail(f))

\* 0.3 <= strength <= 0.618
GoldenRetracement(strength) ==
    /\ 300 * strength.den <= 1000 * strength.num
    /\ 1000 * strength.num <= 618 * strength.den

Last(q) == q[Len(q)]

\* strokes[-4:]
LastFour(q) == SubSeq(q, Max(1, Len(q) - 3), Len(q))

\* The second buy point read off the stroke before the latest.
is_second_buy_point_prev(q) ==
    IF Len(q) < 3 THEN FALSE
    ELSE IF q[Len(q) - 1].direction = "down" THEN GoldenRetracement(q[Len(q) - 1].strength)
    ELSE FALSE

is_second_buy_point(q) ==
    IF Len(q) < 3 THEN FALSE
    ELSE IF Last(q).direction = "down" THEN GoldenRetracement(Last(q).strength)
    ELSE FALSE

is_third_buy_point(q) ==
    IF Len(q) < 4 THEN FALSE
    ELSE LET recent_highs == SelectSeq(LastFour(q), LAMBDA k : k.direction = "up")
         IN  IF Len(recent_highs) >= 2
             THEN recent_highs[Len(recent_highs)].end_fractal.price
                      > recent_highs[Len(recent_highs) - 1].end_fractal.price
             ELSE FALSE

is_second_sell_point(q) ==
    IF Len(q) < 3 THEN FALSE
    ELSE IF Last(q).direction = "up" THEN GoldenRetracement(Last(q).strength)
    ELSE FALSE

is_third_sell_point(q) ==
    IF Len(q) < 4 THEN FALSE
    ELSE LET recent_lows == SelectSeq(LastFour(q), LAMBDA k : k.direction = "down")
         IN  IF Len(recent_lows) >= 2
             THEN recent_lows[Len(recent_lows)].end_fractal.price
                      < recent_lows[Len(recent_lows) - 1].end_fractal.price
             ELSE FALSE

identify_buy_sell_points(q, t) ==
    IF Len(q) < 2 THEN <<>>
    ELSE IF t = "UP"
    THEN IF Last(q).direction = "down" /\ Len(q) >= 3 /\ q[Len(q) - 1].direction = "up"
         THEN IF is_second_buy_point(q) THEN <<"BUY_2">>
              ELSE IF is_third_buy_point(q) THEN <<"BUY_3">>
              ELSE <<>>
         ELSE <<>>
    ELSE IF t = "DOWN"
    THEN IF Last(q).direction = "up" /\ Len(q) >= 3 /\ q[Len(q) - 1].direction = "down"
         THEN IF is_second_sell_point(q) THEN <<"SELL_2">>
              ELSE IF is_third_sell_point(q) THEN <<"SELL_3">>
              ELSE <<>>
         ELSE <<>>
    ELSE <<>>

monitor_emotion_indicators(rsi) ==
    [rsi_overbought |-> rsi > rsi_overbought,
     rsi_oversold |-> rsi < rsi_oversold,
     extreme_emotion |-> rsi > 90 \/ rsi < 10,
     rsi_value |-> rsi]

AnyOf(points, kinds) == \E k \in 1..Len(points) : points[k] \in kinds

\* Step 1 of _make_comprehensive_decision: the signal type.
DecisionType(t, points) ==
    IF t = "UP" /\ AnyOf(points, {"BUY_2", "BUY_3"}) THEN "BUY"
    ELSE IF t = "DOWN" /\ AnyOf(points, {"SELL_2", "SELL_3"}) THEN "SELL"
    ELSE "HOLD"

\* The confidence with 0.3 taken off a buy at a HIGH position, not 0.1.
DecisionConfidenceHighPenalty(t, pos, points, div, emo) ==
    LET signal_type == DecisionType(t, points)
    IN  50
        + (IF signal_type # "HOLD" THEN 20 ELSE 0)
        + (IF signal_type = "BUY" /\ pos \in {"LOW", "MEDIUM_LOW"} THEN 20
           ELSE IF signal_type = "BUY" /\ pos = "HIGH" THEN -30
           ELSE IF signal_type = "SELL" /\ pos \in {"HIGH", "MEDIUM_HIGH"} THEN 20
           ELSE 0)
        + (IF div = "bearish_divergence" /\ signal_type = "BUY" THEN 15
           ELSE IF div = "bullish_divergence" /\ signal_type = "SELL" THEN 15
           ELSE 0)
        + (IF emo.extreme_emotion /\ emo.rsi_oversold /\ signal_type = "BUY" THEN 10
           ELSE IF emo.extreme_emotion /\ emo.rsi_overbought /\ signal_type = "SELL" THEN 10
           ELSE 0)

\* Steps 1 to 4: the confidence accumulated, in hundredths.
DecisionConfidence(t, pos, points, div, emo) ==
    LET signal_type == DecisionType(t, points)
    IN  50
        + (IF signal_type # "HOLD" THEN 20 ELSE 0)
        + (IF signal_type = "BUY" /\ pos \in {"LOW", "MEDIUM_LOW"} THEN 20
           ELSE IF signal_type = "BUY" /\ pos = "HIGH" THEN -10
           ELSE IF signal_type = "SELL" /\ pos \in {"HIGH", "MEDIUM_HIGH"} THEN 20
           ELSE 0)
        + (IF div = "bearish_divergence" /\ signal_type = "BUY" THEN 15
           ELSE IF div = "bullish_divergence" /\ signal_type = "SELL" THEN 15
           ELSE 0)
        + (IF emo.extreme_emotion /\ emo.rsi_oversold /\ signal_type = "BUY" THEN 10
           ELSE IF emo.extreme_emotion /\ emo.rsi_overbought /\ signal_type = "SELL" THEN 10
           ELSE 0)

\* confidence >= 0.8 on the float the steps accumulate.  The steps' sums are
\* exact decimals in hundredths but for binary rounding, which matters at one
\* cutoff only: the one sum that is 0.8 exactly, 0.5 + 0.2 + 0.1, evaluates
\* to 0.7999999999999999 and fails the test; 0.5 + 0.2 - 0.1 evaluates to 0.6.
ReachesStrong(confidence) == confidence >= 80 /\ confidence # 80

\* Steps 4 and 5: the strength step 4 sets, then what step 5 makes of it.
DecisionStrength(t, pos, points, div, emo) ==
    LET signal_type == DecisionType(t, points)
        confidence == DecisionConfidence(t, pos, points, div, emo)
        forced == /\ emo.extreme_emotion
                  /\ \/ emo.rsi_oversold /\ signal_type = "BUY"
                     \/ emo.rsi_overbought /\ signal_type = "SELL"
        step4 == IF forced THEN STRONG ELSE WEAK
    IN  IF ReachesStrong(confidence) THEN STRONG
        ELSE IF confidence >= 60 THEN MEDIUM
        ELSE step4

\* The decision without the cap on the confidence it returns.
make_comprehensive_decision_uncapped(t, pos, points, div, emo) ==
    LET signal_type == DecisionType(t, points)
        confidence == DecisionConfidence(t, pos, points, div, emo)
    IN  IF signal_type = "HOLD" \/ confidence < 50 THEN NoSignal
        ELSE TradingSignal(signal_type, DecisionStrength(t, pos, points, div, emo),
                           [num |-> confidence, den |-> ConfScale])

make_comprehensive_decision(t, pos, points, div, emo) ==
    LET signal_type == DecisionType(t, points)
        confidence == DecisionConfidence(t, pos, points, div, emo)
    IN  IF signal_type = "HOLD" \/ confidence < 50 THEN NoSignal
        ELSE TradingSignal(signal_type, DecisionStrength(t, pos, points, div, emo),
                           Rat(Min(confidence, 100), ConfScale))

\* The indicator columns calculate_signal and its helpers read.
AllColumns == {"MA_5", "MA_20", "MA_60", "MACD", "MACD_Hist", "RSI"}

\* An input series' indicators: the columns present, the latest bar's moving
\* averages and RSI, and the shape of the MACD column over the bars.
Indicators(columns, ma5, ma20, ma60, rsi, macd) ==
    [columns |-> columns, MA_5 |-> ma5, MA_20 |-> ma20, MA_60 |-> ma60,
     RSI |-> rsi, MACD |-> macd]

DefaultIndicators == Indicators(AllColumns, 1, 1, 1, 50, "flat")

\* macd[i], for the three shapes of the MACD column the model draws.
macd_at(ind, i) ==
    IF ind.MACD = "rising" THEN i
    ELSE IF ind.MACD = "falling" THEN 0 - i
    ELSE 0

\* How a call ended: nothing yet, a return, or an exception and the key it names.
Outcome(kind, field, value) == [kind |-> kind, field |-> field, value |-> value]

NoOutcome == Outcome("none", "", 0)

\* _detect_divergence returns None on fewer bars than this.
divergence_min_bars == 50

\* The comparison of _detect_divergence on the last two strokes, which have
\* the direction given: a new extreme in price that the MACD does not make.
Diverges(ind, prev_stroke, latest_stroke) ==
    LET price1 == prev_stroke.end_fractal.price
        price2 == latest_stroke.end_fractal.price
        macd1 == macd_at(ind, prev_stroke.end_index)
        macd2 == macd_at(ind, latest_stroke.end_index)
    IN  IF latest_stroke.direction = "up"
        THEN price2 > price1 /\ macd2 < macd1
        ELSE price2 < price1 /\ macd2 > macd1

\* _detect_divergence with the two labels exchanged.
detect_divergence_swapped(d, ind, q) ==
    IF Len(q) < 2 \/ Len(d) < divergence_min_bars THEN "None"
    ELSE IF q[Len(q)].direction # q[Len(q) - 1].direction THEN "None"
    ELSE IF ~Diverges(ind, q[Len(q) - 1], q[Len(q)]) THEN "None"
    ELSE IF q[Len(q)].direction = "up" THEN "bearish_divergence"
    ELSE "bullish_divergence"

\* _detect_divergence without the test that the last two strokes have one
\* direction.
detect_divergence_any_pair(d, ind, q) ==
    IF Len(q) < 2 \/ Len(d) < divergence_min_bars THEN "None"
    ELSE IF ~Diverges(ind, q[Len(q) - 1], q[Len(q)]) THEN "None"
    ELSE IF q[Len(q)].direction = "up" THEN "bullish_divergence"
    ELSE "bearish_divergence"

\* _detect_divergence: an up pair that diverges is labelled
\* 'bullish_divergence', a down pair 'bearish_divergence'.
detect_divergence(d, ind, q) ==
    IF Len(q) < 2 \/ Len(d) < divergence_min_bars THEN "None"
    ELSE IF q[Len(q)].direction # q[Len(q) - 1].direction THEN "None"
    ELSE IF ~Diverges(ind, q[Len(q) - 1], q[Len(q)]) THEN "None"
    ELSE IF q[Len(q)].direction = "up" THEN "bullish_divergence"
    ELSE "bearish_divergence"

\* The last three strokes of direction dir.
RecentCount(q, dir) ==
    Cardinality({i \in (Len(q) - 2)..Len(q) : q[i].direction = dir})

\* if ma5 > ma20 > ma60 ... elif ma5 < ma20 < ma60
ma_trend_score(ind) ==
    IF ind.MA_5 > ind.MA_20 /\ ind.MA_20 > ind.MA_60 THEN 1
    ELSE IF ind.MA_5 < ind.MA_20 /\ ind.MA_20 < ind.MA_60 THEN -1
    ELSE 0

stroke_trend_score(q) ==
    IF RecentCount(q, "up") > RecentCount(q, "down") THEN 1
    ELSE IF RecentCount(q, "down") > RecentCount(q, "up") THEN -1
    ELSE 0

\* _analyze_trend following the strokes alone.
analyze_trend_strokes_only(ind, q) ==
    IF Len(q) < 3 THEN "SIDEWAYS"
    ELSE IF stroke_trend_score(q) > 0 THEN "UP"
    ELSE IF stroke_trend_score(q) < 0 THEN "DOWN"
    ELSE "SIDEWAYS"

\* _analyze_trend following the moving averages alone.
analyze_trend_ma_only(ind, q) ==
    IF Len(q) < 3 THEN "SIDEWAYS"
    ELSE IF ma_trend_score(ind) > 0 THEN "UP"
    ELSE IF ma_trend_score(ind) < 0 THEN "DOWN"
    ELSE "SIDEWAYS"

\* _analyze_trend: combined_score = (stroke + ma) / 2 is above 0.5 exactly
\* when the sum is above 1.
analyze_trend(ind, q) ==
    IF Len(q) < 3 THEN "SIDEWAYS"
    ELSE LET twice_combined_score == stroke_trend_score(q) + ma_trend_score(ind)
         IN  IF twice_combined_score > 1 THEN "UP"
             ELSE IF twice_combined_score < -1 THEN "DOWN"
             ELSE "SIDEWAYS"

\* self.position_lookback, and base_position and max_position in tenths.
position_lookback == 120
base_position == 2
max_position == 5

\* data.tail(self.position_lookback)
TailOf(d, n) == SubSeq(d, Max(1, Len(d) - n + 1), Len(d))

\* lookback_data['high'].max() and lookback_data['low'].min()
MaxHigh(w) ==
    CHOOSE h \in {w[i].high : i \in 1..Len(w)} : \A i \in 1..Len(w) : w[i].high <= h

MinLow(w) ==
    CHOOSE l \in {w[i].low : i \in 1..Len(w)} : \A i \in 1..Len(w) : w[i].low >= l

\* The class of position_pct = num / den, den > 0, at the cutoffs 0.8, 0.6,
\* 0.4 and 0.2.
PositionClass(num, den) ==
    IF 10 * num >= 8 * den THEN "HIGH"
    ELSE IF 10 * num >= 6 * den THEN "MEDIUM_HIGH"
    ELSE IF 10 * num >= 4 * den THEN "MEDIUM"
    ELSE IF 10 * num >= 2 * den THEN "MEDIUM_LOW"
    ELSE "LOW"

\* _calculate_relative_position without the case of a flat window.
calculate_relative_position_noflat(d) ==
    LET lookback_data == TailOf(d, position_lookback)
        current_price == d[Len(d)].close
        high_price == MaxHigh(lookback_data)
        low_price == MinLow(lookback_data)
    IN  IF high_price = low_price
        THEN (IF current_price >= low_price THEN "HIGH" ELSE "LOW")
        ELSE PositionClass(current_price - low_price, high_price - low_price)

\* _calculate_relative_position, on a series of at least one bar.
calculate_relative_position(d) ==
    LET lookback_data == TailOf(d, position_lookback)
        current_price == d[Len(d)].close
        high_price == MaxHigh(lookback_data)
        low_price == MinLow(lookback_data)
    IN  IF high_price = low_price THEN PositionClass(1, 2)
        ELSE PositionClass(current_price - low_price, high_price - low_price)

\* Sizes are in 1/SizeScale: tenths (base) x tenths (strength multiplier) x
\* hundredths (confidence) x tenths (position multiplier).
SizeScale == 10 * 10 * ConfScale * 10

size_multiplier(signal) ==
    IF signal.strength = STRONG THEN 15
    ELSE IF signal.strength = MEDIUM THEN 12
    ELSE 10

position_multiplier(signal, pos) ==
    IF signal.signal_type = "BUY"
    THEN (IF pos = "LOW" THEN 13 ELSE IF pos = "HIGH" THEN 7 ELSE 10)
    ELSE 10

\* calculate_position_size with the position multiplier of a buy applied to
\* every signal.
calculate_position_size_any_direction(signal, d) ==
    LET pos == calculate_relative_position(d)
        position_multiplier_any == IF pos = "LOW" THEN 13 ELSE IF pos = "HIGH" THEN 7 ELSE 10
        final_size == base_position * size_multiplier(signal)
                        * ((signal.confidence.num * ConfScale) \div signal.confidence.den)
                        * position_multiplier_any
    IN  Min(final_size, max_position * (SizeScale \div 10))

\* calculate_position_size(signal, market_data)
calculate_position_size(signal, d) ==
    LET final_size == base_position * size_multiplier(signal)
                        * ((signal.confidence.num * ConfScale) \div signal.confidence.den)
                        * position_multiplier(signal, calculate_relative_position(d))
    IN  Min(final_size, max_position * (SizeScale \div 10))

----------------------------------------------------------------------------
(* robot_manager.py *)

\* (self.config.capital_allocation * 100000) with the default allocation
\* 0.2, and the tenth of it that caps a position.
allocated_capital == 20000
position_cap_capital == allocated_capital \div 10

\* TradingRobot.__init__: stopped, no position, no error, no trade counted.
\* A position is recorded as positions[symbol] = [quantity, avg_price]; a
\* symbol without position is not in the domain.
TradingRobot(symbols) ==
    [symbols |-> symbols, status |-> "STOPPED", positions |-> <<>>,
     error_message |-> "", trade_count |-> 0, total_pnl |-> 0]

\* start, stop, pause
start(r) == [r EXCEPT !.status = "RUNNING", !.error_message = ""]

stop(r) == [r EXCEPT !.status = "STOPPED"]

pause(r) == [r EXCEPT !.status = "PAUSED"]

\* if self.status != RobotStatus.RUNNING: return []
Runs(r) == r.status = "RUNNING"

\* current_position = self.positions.get(symbol, {}), tested for truth: a
\* recorded position is a dict of three keys, which is true.
HasPosition(r, symbol) == symbol \in DOMAIN r.positions

\* _calculate_position_size: min(int(base_size * confidence), int(max_size)).
robot_position_size(price, confidence) ==
    Min((allocated_capital * confidence.num) \div (price * confidence.den),
        position_cap_capital \div price)

\* The frame of a symbol in market_data: its number of rows and the close of
\* its last row.
Frame(rows, close) == [rows |-> rows, close |-> close]

\* _generate_order raising: data.iloc[-1] of a frame without row, or the
\* division by a close of 0 in _calculate_position_size (its infinite
\* quotient fails in int()).
OrderRaises(r, symbol, signal, frame) ==
    \/ frame.rows = 0
    \/ /\ signal.signal_type = "BUY"
       /\ ~HasPosition(r, symbol)
       /\ frame.close = 0

Order(symbol, action, quantity, price, signal) ==
    [symbol |-> symbol, action |-> action, quantity |-> quantity,
     price |-> price, signal_strength |-> signal.strength,
     confidence |-> signal.confidence]

\* _generate_order selling whether or not a position is recorded: the
\* quantity is current_position.get('quantity', 0).
generate_order_short(r, symbol, signal, frame) ==
    IF signal.signal_type = "BUY" /\ ~HasPosition(r, symbol)
    THEN <<Order(symbol, "BUY", robot_position_size(frame.close,
                                                    signal.confidence),
                 frame.close, signal)>>
    ELSE IF signal.signal_type = "SELL"
    THEN <<Order(symbol, "SELL",
                 IF HasPosition(r, symbol) THEN r.positions[symbol].quantity
                 ELSE 0,
                 frame.close, signal)>>
    ELSE <<>>

\* _generate_order where it does not raise: the order, or none.
generate_order(r, symbol, signal, frame) ==
    IF signal.signal_type = "BUY" /\ ~HasPosition(r, symbol)
    THEN <<Order(symbol, "BUY", robot_position_size(frame.close,
                                                    signal.confidence),
                 frame.close, signal)>>
    ELSE IF signal.signal_type = "SELL" /\ HasPosition(r, symbol)
    THEN <<Order(symbol, "SELL", r.positions[symbol].quantity,
                 frame.close, signal)>>
    ELSE <<>>

\* The locals of process_signals and what its fusion calls did to the tree
\* (tree: its signal_history, and the sources' signals and the composite of
\* the last fusion that returned): the orders gathered, the fusions called,
\* and whether an exception ended the loop.
RunStart(tree) ==
    [orders |-> <<>>, history |-> tree.history, signals |-> tree.signals,
     composite |-> tree.composite, fusions |-> 0, raised |-> FALSE]

\* One turn of "for symbol in self.config.symbols" for a symbol whose sources
\* return sigs and whose fusion raises if fails.
SymbolTurn(r, strats, symbol, market_data, sigs, fails, run) ==
    IF symbol \notin DOMAIN market_data THEN run
    ELSE IF fails THEN [run EXCEPT !.fusions = @ + 1, !.raised = TRUE]
    ELSE LET entry == Fuse(strats, sigs)
             signal == Returned(entry)
             fused == [run EXCEPT
                          !.fusions = @ + 1,
                          !.signals = sigs,
                          !.composite = signal,
                          !.history = IF entry.signal_type = "HOLD" THEN @
                                      ELSE Append(@, entry)]
             frame == market_data[symbol]
         IN  IF signal = NoSignal THEN fused
             ELSE IF OrderRaises(r, symbol, signal, frame)
             THEN [fused EXCEPT !.raised = TRUE]
             ELSE [fused EXCEPT
                      !.orders = @ \o generate_order(r, symbol, signal, frame)]

\* The loop of process_signals from the i-th configured symbol on; an
\* exception ends it.
RECURSIVE SymbolsFrom(_, _, _, _, _, _, _)
SymbolsFrom(r, strats, market_data, sigs, failing, i, run) ==
    IF i > Len(r.symbols) \/ run.raised THEN run
    ELSE SymbolsFrom(r, strats, market_data, sigs, failing, i + 1,
            SymbolTurn(r, strats, r.symbols[i], market_data, sigs[i],
                       failing = i, run))

\* The except clause of process_signals leaving the status as it was.
after_exception_running(r) == [r EXCEPT !.error_message = "error"]

\* except Exception as e: status ERROR, error_message str(e).
after_exception(r) == [r EXCEPT !.status = "ERROR", !.error_message = "error"]

\* process_signals: the robot after it, the orders it returns, and what its
\* fusion calls left in the tree.
process_signals(r, strats, tree, market_data, sigs, failing) ==
    IF ~Runs(r)
    THEN [robot |-> r, run |-> RunStart(tree)]
    ELSE LET run == SymbolsFrom(r, strats, market_data, sigs, failing, 1,
                                RunStart(tree))
         IN  [robot |-> IF run.raised THEN after_exception(r) ELSE r,
              run |-> run]

\* A function without the key k.
Without(f, k) == [x \in DOMAIN f \ {k} |-> f[x]]

\* A function with the key k set to v.
With(f, k, v) == [x \in DOMAIN f \cup {k} |-> IF x = k THEN v ELSE f[x]]

\* update_position: a BUY records the position, replacing one recorded
\* before; a SELL of a recorded position counts the trade and its profit and
\* removes the position; anything else changes nothing.
update_position(r, symbol, action, quantity, price) ==
    IF action = "BUY"
    THEN [r EXCEPT !.positions =
             With(@, symbol, [quantity |-> quantity, avg_price |-> price])]
    ELSE IF action = "SELL" /\ symbol \in DOMAIN r.positions
    THEN [r EXCEPT !.total_pnl =
                      @ + (price - r.positions[symbol].avg_price) * quantity,
                   !.trade_count = @ + 1,
                   !.positions = Without(@, symbol)]
    ELSE r

----------------------------------------------------------------------------
(* Inputs *)

Names == {"a", "b"}

\* Initial weights of the sources the tree machine registers: 1.0 and 5.0.
InitialWeights == {WScale, 5 * WScale}

\* The win rate a caller records in the tree machine: 0.5.
RecordedWinRates == {50}

ProfitLosses == {-1, 1}

\* What a source's calculate_signal returns in the tree machine.
TreeSignals ==
    {NoSignal, TradingSignal("BUY", STRONG, Rat(90, 100))}

RECURSIVE SeqsOf(_, _)
SeqsOf(S, n) ==
    IF n = 0 THEN {<<>>}
    ELSE {<<x>> \o r : x \in S, r \in SeqsOf(S, n - 1)}

----------------------------------------------------------------------------
(* The StrategyTree state machine *)

\* No call of the pipeline is in progress: its variables hold their defaults.
ChanIdle ==
    /\ data = <<>>
    /\ fractals = <<>>
    /\ strokes = <<>>
    /\ trend = "SIDEWAYS"
    /\ position = "MEDIUM"
    /\ buy_sell_points = <<>>
    /\ divergence = "None"
    /\ emotion = monitor_emotion_indicators(50)
    /\ final_signal = NoSignal
    /\ indicators = DefaultIndicators
    /\ outcome = NoOutcome

\* StrategyTree.__init__
\* No pass is being run step by step.
NoPassInProgress ==
    /\ fusion = FusionIdle
    /\ adapt = AdaptIdle

\* No TradingRobot holds the tree.
NoRobot ==
    /\ robot = [symbols |-> <<>>, status |-> "STOPPED", positions |-> <<>>,
                error_message |-> "", trade_count |-> 0, total_pnl |-> 0]
    /\ orders = <<>>
    /\ called = [method |-> "", fusions |-> 0, raised |-> FALSE]

TreeNew ==
    /\ strategies = <<>>
    /\ signal_history = <<>>
    /\ signals = <<>>
    /\ composite = NoSignal
    /\ passes = 0
    /\ NoPassInProgress
    /\ NoRobot

Init ==
    /\ TreeNew
    /\ pc = "tree"
    /\ ChanIdle

\* A source is created and registered: add_strategy appends.  The call is
\* made where pc is `from` and leaves it at `to`.
AddStrategyAt(from, to) ==
    /\ pc = from
    /\ Len(strategies) < MaxStrategies
    /\ \E name \in Names, weight \in InitialWeights :
          strategies' = Append(strategies, NewStrategy(name, weight))
    /\ pc' = to
    /\ UNCHANGED <<signal_history, signals, composite, passes, raceVars, robotVars, chanVars>>

AddStrategy == AddStrategyAt("tree", "tree")

\* remove_strategy keeps the sources registered under another name.
RemoveStrategyAt(from, to) ==
    /\ pc = from
    /\ \E name \in Names :
          strategies' = SelectSeq(strategies, LAMBDA s : s.name # name)
    /\ pc' = to
    /\ UNCHANGED <<signal_history, signals, composite, passes, raceVars, robotVars, chanVars>>

RemoveStrategy == RemoveStrategyAt("tree", "tree")

UpdatePerformanceAt(from, to) ==
    /\ pc = from
    /\ \E i \in 1..Len(strategies), profit_loss \in ProfitLosses :
          /\ strategies[i].trade_count < MaxTrades
          /\ strategies' = [strategies EXCEPT ![i] = update_performance(@, profit_loss)]
    /\ pc' = to
    /\ UNCHANGED <<signal_history, signals, composite, passes, raceVars, robotVars, chanVars>>

UpdatePerformance == UpdatePerformanceAt("tree", "tree")

\* A caller records a win rate in the source's performance_metrics, the
\* value get_win_rate reads.
RecordWinRateAt(from, to) ==
    /\ pc = from
    /\ \E i \in 1..Len(strategies), w \in RecordedWinRates :
          strategies' = [strategies EXCEPT ![i].win_rate = w]
    /\ pc' = to
    /\ UNCHANGED <<signal_history, signals, composite, passes, raceVars, robotVars, chanVars>>

RecordWinRate == RecordWinRateAt("tree", "tree")

OptimizeWeightsAt(from, to) ==
    /\ pc = from
    /\ passes < MaxPasses
    /\ strategies' = [i \in 1..Len(strategies) |-> optimize_one(strategies[i])]
    /\ passes' = passes + 1
    /\ pc' = to
    /\ UNCHANGED <<signal_history, signals, composite, raceVars, robotVars, chanVars>>

OptimizeWeights == OptimizeWeightsAt("tree", "tree")

\* One calculate_composite_signal pass, the sources returning signals of S.
CompositeSignalOver(S) ==
    /\ \E sigs \in SeqsOf(S, Len(strategies)) :
          LET entry == Fuse(strategies, sigs)
          IN  /\ entry.signal_type # "HOLD" => Len(signal_history) < MaxHistory
              /\ signals' = sigs
              /\ composite' = Returned(entry)
              /\ signal_history' =
                    IF entry.signal_type = "HOLD" THEN signal_history
                    ELSE Append(signal_history, entry)
    /\ UNCHANGED <<strategies, passes, raceVars, robotVars, chanVars>>

CalculateCompositeSignal ==
    /\ pc = "tree"
    /\ CompositeSignalOver(TreeSignals)
    /\ UNCHANGED pc

Next ==
    \/ AddStrategy
    \/ RemoveStrategy
    \/ UpdatePerformance
    \/ RecordWinRate
    \/ OptimizeWeights
    \/ CalculateCompositeSignal

Spec == Init /\ [][Next]_vars

----------------------------------------------------------------------------
(* One adaptation pass over drawn sources *)

\* Weights 0.1, 0.2, 1.0, 1.8, 1.9 and 2.0.
WeightGrid ==
    {WeightFloor, 2 * WeightFloor, WScale, 18 * WeightFloor, 19 * WeightFloor, WeightCap}

\* Recorded win rates 0.0, 0.39, 0.4, 0.6 and 0.61.
WinRates == {0, 39, 40, 60, 61}

DrawnSources ==
    {[NewStrategy("a", w) EXCEPT !.win_rate = r] : w \in WeightGrid, r \in WinRates}

InitAdapt ==
    /\ strategies \in UNION {SeqsOf(DrawnSources, n) : n \in 1..MaxStrategies}
    /\ signal_history = <<>>
    /\ signals = <<>>
    /\ composite = NoSignal
    /\ passes = 0
    /\ NoPassInProgress
    /\ NoRobot
    /\ pc = "tree"
    /\ ChanIdle

SpecAdapt == InitAdapt /\ [][OptimizeWeights]_vars

----------------------------------------------------------------------------
(* Calls of the pipeline's functions on drawn inputs *)

\* Bars with high = low at every price, and one tall bar.
BarSet ==
    {[high |-> h, low |-> h] : h \in 1..MaxPrice} \cup {[high |-> 3, low |-> 1]}

BarSeries == UNION {[1..n -> BarSet] : n \in 0..MaxBars}

\* Fractal sequences as _identify_fractals emits them: in index order, the
\* top before the bottom of one bar (never below it), fractals of one type at
\* least 3 bars apart.  The next fractal is 0, 3 or 5 bars on.
Gaps == {0, 3, 5}
FractalPrices == {100, 110}
FractalTypes == {"top", "bottom"}

Followers(f) ==
    {g \in {Fractal(f.index + k, t, p) : k \in Gaps, t \in FractalTypes, p \in FractalPrices} :
        g.index = f.index => f.type = "top" /\ g.type = "bottom" /\ g.price <= f.price}

RECURSIVE FractalSeqsAfter(_, _)
FractalSeqsAfter(f, n) ==
    IF n = 0 THEN {<<>>}
    ELSE {<<>>} \cup UNION {{<<g>> \o r : r \in FractalSeqsAfter(g, n - 1)} : g \in Followers(f)}

FractalSeqs ==
    {<<>>} \cup UNION {{<<f>> \o r : r \in FractalSeqsAfter(f, MaxFractals - 1)} :
                        f \in {Fractal(2, t, p) : t \in FractalTypes, p \in FractalPrices}}

\* Alternating fractals exactly min_k_for_stroke bars apart: every pair is a
\* stroke.  The prices give strengths 0.10 (100 to 110) and 0.40 (110 to 66).
ScenarioPrices == {66, 100, 110}

Other(t) == IF t = "top" THEN "bottom" ELSE "top"

RECURSIVE AlternatingAfter(_, _)
AlternatingAfter(f, n) ==
    IF n = 0 THEN {<<>>}
    ELSE {<<>>} \cup
         UNION {{<<Fractal(f.index + min_k_for_stroke, Other(f.type), p)>> \o r :
                    r \in AlternatingAfter(Fractal(f.index + min_k_for_stroke, Other(f.type), p),
                                           n - 1)} : p \in ScenarioPrices}

ScenarioFractals ==
    UNION {{<<f>> \o r : r \in AlternatingAfter(f, MaxStrokes)} :
             f \in {Fractal(2, t, p) : t \in FractalTypes, p \in ScenarioPrices}}

Trends == {"UP", "DOWN", "SIDEWAYS"}
Positions == {"HIGH", "MEDIUM_HIGH", "MEDIUM", "MEDIUM_LOW", "LOW"}
Divergences == {"None", "bullish_divergence", "bearish_divergence"}
PointLists == {<<>>, <<"BUY_2">>, <<"BUY_3">>, <<"SELL_2">>, <<"SELL_3">>}
RsiLevels == {5, 15, 50, 85, 95}

\* Source weights 0.1, 1.0 and 2.0 and the signals the sources return.
FusionWeights == {WeightFloor, WScale, WeightCap}

SourceSignals ==
    {NoSignal,
     TradingSignal("BUY", STRONG, Rat(90, 100)),
     TradingSignal("BUY", WEAK, Rat(90, 100)),
     TradingSignal("BUY", WEAK, Rat(80, 100)),
     TradingSignal("BUY", WEAK, Rat(70, 100)),
     TradingSignal("BUY", WEAK, Rat(60, 100)),
     TradingSignal("BUY", MEDIUM, Rat(0, 100)),
     TradingSignal("SELL", WEAK, Rat(90, 100)),
     TradingSignal("SELL", WEAK, Rat(80, 100)),
     TradingSignal("SELL", WEAK, Rat(70, 100)),
     TradingSignal("SELL", STRONG, Rat(100, 100)),
     TradingSignal("HOLD", WEAK, Rat(50, 100))}

\* _identify_fractals is called on a series.
InitFractals ==
    /\ TreeNew
    /\ pc = "fractals"
    /\ data \in BarSeries
    /\ fractals = <<>>
    /\ strokes = <<>>
    /\ trend = "SIDEWAYS"
    /\ position = "MEDIUM"
    /\ buy_sell_points = <<>>
    /\ divergence = "None"
    /\ emotion = monitor_emotion_indicators(50)
    /\ final_signal = NoSignal
    /\ indicators = DefaultIndicators
    /\ outcome = NoOutcome

\* _identify_strokes is called on a fractal sequence.
InitStrokes ==
    /\ TreeNew
    /\ pc = "strokes"
    /\ data = <<>>
    /\ fractals \in FractalSeqs
    /\ strokes = <<>>
    /\ trend = "SIDEWAYS"
    /\ position = "MEDIUM"
    /\ buy_sell_points = <<>>
    /\ divergence = "None"
    /\ emotion = monitor_emotion_indicators(50)
    /\ final_signal = NoSignal
    /\ indicators = DefaultIndicators
    /\ outcome = NoOutcome

\* _identify_buy_sell_points is called on strokes and a trend; the position
\* is the one the decision that follows is given.
InitPoints ==
    /\ TreeNew
    /\ pc = "points"
    /\ data = <<>>
    /\ fractals \in ScenarioFractals
    /\ strokes = identify_strokes(fractals)
    /\ trend \in Trends
    /\ position \in Positions
    /\ buy_sell_points = <<>>
    /\ divergence = "None"
    /\ emotion = monitor_emotion_indicators(50)
    /\ final_signal = NoSignal
    /\ indicators = DefaultIndicators
    /\ outcome = NoOutcome

\* _make_comprehensive_decision is called on its five inputs.
InitDecision ==
    /\ TreeNew
    /\ pc = "decision"
    /\ data = <<>>
    /\ fractals = <<>>
    /\ strokes = <<>>
    /\ trend \in Trends
    /\ position \in Positions
    /\ buy_sell_points \in PointLists
    /\ divergence \in Divergences
    /\ emotion \in {monitor_emotion_indicators(r) : r \in RsiLevels}
    /\ final_signal = NoSignal
    /\ indicators = DefaultIndicators
    /\ outcome = NoOutcome

\* calculate_composite_signal is called on a tree of registered sources.
InitFusion ==
    /\ strategies \in UNION {SeqsOf({NewStrategy("a", w) : w \in FusionWeights}, n) :
                               n \in 1..MaxStrategies}
    /\ signal_history = <<>>
    /\ signals = <<>>
    /\ composite = NoSignal
    /\ passes = 0
    /\ NoPassInProgress
    /\ NoRobot
    /\ pc = "fuse"
    /\ ChanIdle

\* fractals = self._identify_fractals(data); _identify_strokes is next
IdentifyFractals ==
    /\ pc = "fractals"
    /\ fractals' = identify_fractals(data)
    /\ pc' = "strokes"
    /\ UNCHANGED <<treeVars, robotVars, data, strokes, trend, position, buy_sell_points,
                   divergence, emotion, final_signal, indicators, outcome>>

\* strokes = self._identify_strokes(data, fractals); without strokes
\* calculate_signal returns None, else _analyze_trend is next
IdentifyStrokes ==
    /\ pc = "strokes"
    /\ strokes' = identify_strokes(fractals)
    /\ pc' = IF strokes' = <<>> THEN "done" ELSE "trend"
    /\ UNCHANGED <<treeVars, robotVars, data, fractals, trend, position, buy_sell_points,
                   divergence, emotion, final_signal, indicators, outcome>>

\* buy_sell_points = self._identify_buy_sell_points(data, strokes, trend);
\* the divergence and the emotion being given, the decision is next
IdentifyBuySellPoints ==
    /\ pc = "points"
    /\ buy_sell_points' = identify_buy_sell_points(strokes, trend)
    /\ pc' = "decision"
    /\ UNCHANGED <<treeVars, robotVars, data, fractals, strokes, trend, position,
                   divergence, emotion, final_signal, indicators, outcome>>

\* final_signal = self._make_comprehensive_decision(...)
MakeComprehensiveDecision ==
    /\ pc = "decision"
    /\ final_signal' = make_comprehensive_decision(trend, position, buy_sell_points,
                                                   divergence, emotion)
    /\ pc' = "done"
    /\ UNCHANGED <<treeVars, robotVars, data, fractals, strokes, trend, position,
                   buy_sell_points, divergence, emotion, indicators, outcome>>

\* composite = strategy_tree.calculate_composite_signal(data)
FusionPass ==
    /\ pc = "fuse"
    /\ CompositeSignalOver(SourceSignals)
    /\ pc' = "done"

SpecFractals == InitFractals /\ [][IdentifyFractals]_vars

InitCalls == InitStrokes \/ InitPoints \/ InitDecision \/ InitFusion

NextCalls ==
    \/ IdentifyStrokes
    \/ IdentifyBuySellPoints
    \/ MakeComprehensiveDecision
    \/ FusionPass

SpecCalls == InitCalls /\ [][NextCalls]_vars

----------------------------------------------------------------------------
(* Weight adaptation: claims *)

InRange(w) == WeightFloor <= w /\ w <= WeightCap

\* C2: once an optimize_weights pass has run over the registered sources,
\* every one of them has its weight in [0.1, 2.0], whatever its initial
\* weight and its win rate.
C2_WeightInRangeAfterPass ==
    [][passes' # passes =>
          \A i \in 1..Len(strategies') : InRange(strategies'[i].weight)]_vars

\* The weight the claim gives a source after one pass.
C6_Expected(s) ==
    IF s.win_rate > 60 THEN Min(WeightCap, (s.weight * 11) \div 10)
    ELSE IF s.win_rate < 40 THEN Max(WeightFloor, (s.weight * 9) \div 10)
    ELSE s.weight

\* C6: one optimize_weights pass takes a weight w in [0.1, 2.0] to
\* min(2.0, 1.1 w) when the win rate is above 0.6, to max(0.1, 0.9 w) when it
\* is below 0.4, and leaves it alone when the win rate is in [0.4, 0.6].
C6_PassFormula ==
    [][passes' # passes =>
          \A i \in 1..Len(strategies) :
              InRange(strategies[i].weight) =>
                  strategies'[i].weight = C6_Expected(strategies[i])]_vars

\* A pass has grown 1.8 to 1.98, capped 1.9 at 2.0 and kept a weight at the
\* boundary win rate 0.6.
C6_Witness ==
    /\ passes = 1
    /\ Len(strategies) = 2
    /\ strategies[1].win_rate = 61 /\ strategies[1].weight * 100 = 198 * WScale
    /\ strategies[2].win_rate = 60 /\ strategies[2].weight = 19 * WeightFloor

----------------------------------------------------------------------------
(* _detect_divergence on drawn strokes, and the decision on its result *)

\* A bar whose prices are all p.
FlatBar(p) == [high |-> p, low |-> p, close |-> p]

FlatSeries(n, p) == [i \in 1..n |-> FlatBar(p)]

\* The k-th stroke of a list, min_k_for_stroke bars long, its start fractal of
\* type t: the lists hold strokes of any directions, in the order of the bars.
StrokeAt(k, t, p1, p2) ==
    Stroke(Fractal(10 * k - 8, t, p1),
           Fractal(10 * k - 8 + min_k_for_stroke, Other(t), p2))

RECURSIVE StrokeListsOf(_)
StrokeListsOf(n) ==
    IF n = 0 THEN {<<>>}
    ELSE {Append(q, StrokeAt(n, t, p1, p2)) :
             q \in StrokeListsOf(n - 1), t \in FractalTypes,
             p1 \in FractalPrices, p2 \in FractalPrices}

StrokeLists == UNION {StrokeListsOf(n) : n \in 0..(MaxFractals - 2)}

MacdShapes == {"rising", "falling", "flat"}

\* _detect_divergence is called on a series of 49 or 50 bars and a list of
\* strokes; the decision that follows is given a trend and points.
InitDivergence ==
    /\ TreeNew
    /\ pc = "divergence"
    /\ data \in {FlatSeries(n, 100) : n \in {divergence_min_bars - 1, divergence_min_bars}}
    /\ fractals = <<>>
    /\ strokes \in StrokeLists
    /\ trend \in Trends
    /\ position = "MEDIUM"
    /\ buy_sell_points \in PointLists
    /\ divergence = "None"
    /\ emotion = monitor_emotion_indicators(50)
    /\ final_signal = NoSignal
    /\ indicators \in {Indicators(AllColumns, 1, 1, 1, 50, m) : m \in MacdShapes}
    /\ outcome = NoOutcome

\* divergence_signal = self._detect_divergence(data, strokes)
DetectDivergence ==
    /\ pc = "divergence"
    /\ divergence' = detect_divergence(data, indicators, strokes)
    /\ pc' = "decision"
    /\ UNCHANGED <<treeVars, robotVars, data, fractals, strokes, trend, position,
                   buy_sell_points, emotion, final_signal, indicators, outcome>>

NextDivergence ==
    \/ DetectDivergence
    \/ MakeComprehensiveDecision

SpecDivergence == InitDivergence /\ [][NextDivergence]_vars

----------------------------------------------------------------------------
(* _analyze_trend on drawn strokes and moving averages *)

MaLevels == {1, 2, 3}

\* Alternating fractals at one price: the strokes differ by direction only.
TrendFractals ==
    {f \in ScenarioFractals : \A i \in 1..Len(f) : f[i].price = 100}

\* Strokes of any directions, one short of MaxStrokes, at one price.
TrendStrokeLists ==
    {q \in StrokeListsOf(MaxStrokes - 1) :
        \A i \in 1..Len(q) :
            q[i].start_fractal.price = 100 /\ q[i].end_fractal.price = 100}

\* _analyze_trend is called on strokes and the latest moving averages.
InitTrend ==
    /\ TreeNew
    /\ pc = "trend"
    /\ data = <<>>
    /\ \/ fractals \in TrendFractals /\ strokes = identify_strokes(fractals)
       \/ fractals = <<>> /\ strokes \in TrendStrokeLists
    /\ trend = "SIDEWAYS"
    /\ position = "MEDIUM"
    /\ buy_sell_points = <<>>
    /\ divergence = "None"
    /\ emotion = monitor_emotion_indicators(50)
    /\ final_signal = NoSignal
    /\ indicators \in {Indicators(AllColumns, a, b, c, 50, "flat") :
                          a \in MaLevels, b \in MaLevels, c \in MaLevels}
    /\ outcome = NoOutcome

\* trend_direction = self._analyze_trend(data, strokes)
AnalyzeTrend ==
    /\ pc = "trend"
    /\ trend' = analyze_trend(indicators, strokes)
    /\ pc' = "position"
    /\ UNCHANGED <<treeVars, robotVars, data, fractals, strokes, position, buy_sell_points,
                   divergence, emotion, final_signal, indicators, outcome>>

SpecTrend == InitTrend /\ [][AnalyzeTrend]_vars

----------------------------------------------------------------------------
(* calculate_position_size on drawn signals and series *)

\* Series for the position: a first bar, flat bars at MaxPrice, a last bar.
\* With position_lookback - 1 flat bars the first bar is out of the window.
FirstBars ==
    {FlatBar(MaxPrice), [high |-> 2 * MaxPrice, low |-> 0, close |-> MaxPrice]}

LastBars ==
    {[high |-> h, low |-> l, close |-> c] :
        h \in {MaxPrice, 2 * MaxPrice}, l \in {0, MaxPrice}, c \in 0..(2 * MaxPrice)}

PadLengths == {0, position_lookback - 2, position_lookback - 1}

PositionSeries ==
    {<<>>} \cup {<<b>> : b \in LastBars}
      \cup {<<a>> \o FlatSeries(k, MaxPrice) \o <<b>> :
               a \in FirstBars, k \in PadLengths, b \in LastBars}

\* The signals sized: confidences 0, 0.5, 1 and, beyond the range, 2.
SizeSignals ==
    {TradingSignal(t, s, Rat(c, 100)) :
        t \in {"BUY", "SELL"}, s \in {WEAK, MEDIUM, STRONG}, c \in {0, 50, 100, 200}}

\* calculate_position_size is called on a signal and a series.
InitSize ==
    /\ TreeNew
    /\ pc = "size"
    /\ data \in PositionSeries
    /\ fractals = <<>>
    /\ strokes = <<>>
    /\ trend = "SIDEWAYS"
    /\ position = "NOT_COMPUTED"
    /\ buy_sell_points = <<>>
    /\ divergence = "None"
    /\ emotion = monitor_emotion_indicators(50)
    /\ final_signal \in SizeSignals
    /\ indicators = DefaultIndicators
    /\ outcome = NoOutcome

\* calculate_position_size(signal, market_data): data['close'].iloc[-1]
\* raises IndexError on an empty series.
CalculatePositionSize ==
    /\ pc = "size"
    /\ IF data = <<>>
       THEN /\ outcome' = Outcome("IndexError", "", 0)
            /\ UNCHANGED position
       ELSE /\ position' = calculate_relative_position(data)
            /\ outcome' = Outcome("return", "", calculate_position_size(final_signal, data))
    /\ pc' = "done"
    /\ UNCHANGED <<treeVars, robotVars, data, fractals, strokes, trend, buy_sell_points,
                   divergence, emotion, final_signal, indicators>>

SpecSize == InitSize /\ [][CalculatePositionSize]_vars

----------------------------------------------------------------------------
(* One operation of the StrategyTree on a drawn tree *)

\* Registered sources: weights 0.1, 1.0, 2.0 and 5.0, win rates 0, 0.5, 0.7.
OpsSources ==
    {[NewStrategy(name, w) EXCEPT !.win_rate = r] :
        name \in Names, w \in FusionWeights \cup InitialWeights, r \in {0, 50, 70}}

\* A tree of up to MaxStrategies sources, on which one operation is called.
InitOps ==
    /\ strategies \in UNION {[1..n -> OpsSources] : n \in 0..MaxStrategies}
    /\ signal_history = <<>>
    /\ signals = <<>>
    /\ composite = NoSignal
    /\ passes = 0
    /\ NoPassInProgress
    /\ NoRobot
    /\ pc = "ops"
    /\ ChanIdle

OpsCompositeSignal ==
    /\ pc = "ops"
    /\ CompositeSignalOver(TreeSignals)
    /\ pc' = "done"

NextOps ==
    \/ AddStrategyAt("ops", "done")
    \/ RemoveStrategyAt("ops", "done")
    \/ UpdatePerformanceAt("ops", "done")
    \/ RecordWinRateAt("ops", "done")
    \/ OptimizeWeightsAt("ops", "done")
    \/ OpsCompositeSignal

SpecOps == InitOps /\ [][NextOps]_vars

----------------------------------------------------------------------------
(* The entry points: calculate_signal, get_strategy_status and
   calculate_position_size on drawn series and indicator columns *)

\* get_strategy_status reports insufficient_data on fewer bars than this.
status_min_bars == 50

\* The first of the columns cols that the series lacks, "" if it has all:
\* reading it raises KeyError.
FirstMissing(ind, cols) ==
    IF \A i \in 1..Len(cols) : cols[i] \in ind.columns THEN ""
    ELSE cols[CHOOSE i \in 1..Len(cols) :
                 /\ cols[i] \notin ind.columns
                 /\ \A j \in 1..(i - 1) : cols[j] \in ind.columns]

\* The column _analyze_trend fails on, reading MA_5, MA_20 and MA_60 of the
\* latest bar once there are 3 strokes.
TrendKeyError(ind, q) ==
    IF Len(q) >= 3 THEN FirstMissing(ind, <<"MA_5", "MA_20", "MA_60">>) ELSE ""

\* The column _detect_divergence fails on, reading MACD and MACD_Hist once
\* there are 2 strokes and divergence_min_bars bars.
DivergenceKeyError(d, ind, q) ==
    IF Len(q) >= 2 /\ Len(d) >= divergence_min_bars
    THEN FirstMissing(ind, <<"MACD", "MACD_Hist">>) ELSE ""

\* The column _monitor_emotion_indicators fails on.
EmotionKeyError(ind) == FirstMissing(ind, <<"RSI">>)

\* A series rising 5 bars and falling 5 bars, from MaxPrice to MaxPrice + 5:
\* a top or a bottom every min_k_for_stroke bars.
ZigzagBar(i) ==
    FlatBar(MaxPrice + (IF i % 10 <= 5 THEN i % 10 ELSE 10 - (i % 10)))

Zigzag(n) == [k \in 1..n |-> ZigzagBar(k - 1)]

\* Lengths on both sides of the 50 and 120 bar thresholds; at 120 bars the
\* latest stroke of the zigzag is up, at 123 down.
SeriesLengths ==
    {MaxBars, status_min_bars - 1, status_min_bars,
     position_lookback - 1, position_lookback, position_lookback + 3}

\* A zigzag of half-period half whose cycles drift by drift: tops and bottoms
\* half bars apart, each cycle's higher (lower) than the one before.  With
\* half below min_k_for_stroke the strokes pass over fractals.
DriftingBar(i, half, drift) ==
    LET r == i % (2 * half)
        cycle == i \div (2 * half)
        base == MaxPrice + (IF drift < 0 THEN position_lookback ELSE 0)
    IN  FlatBar(base + 2 * (IF r <= half THEN r ELSE 2 * half - r) + drift * cycle)

DriftingZigzag(n, half, drift) == [k \in 1..n |-> DriftingBar(k - 1, half, drift)]

DriftingSeries ==
    {DriftingZigzag(n, half, drift) :
        n \in {position_lookback, position_lookback + 3}, half \in {3, 5}, drift \in {-1, 1}}

PipelineSeries ==
    {Zigzag(n) : n \in SeriesLengths} \cup {FlatSeries(n, MaxPrice) : n \in SeriesLengths}
        \cup DriftingSeries

\* All the columns, all but one, or none.
ColumnSets == {AllColumns, {}} \cup {AllColumns \ {c} : c \in AllColumns}

PipelineIndicators ==
    {Indicators(cols, ma[1], ma[2], ma[3], rsi, m) :
        cols \in ColumnSets, ma \in {<<3, 2, 1>>, <<1, 2, 3>>, <<1, 1, 1>>},
        rsi \in {5, 50, 95}, m \in {"rising", "falling"}}

\* An entry point is called on a series with its indicator columns.
InitEntry(entry) ==
    /\ TreeNew
    /\ pc = entry
    /\ data \in PipelineSeries
    /\ fractals = <<>>
    /\ strokes = <<>>
    /\ trend = "SIDEWAYS"
    /\ position = "NOT_COMPUTED"
    /\ buy_sell_points = <<>>
    /\ divergence = "None"
    /\ emotion = monitor_emotion_indicators(50)
    /\ final_signal = NoSignal
    /\ indicators \in PipelineIndicators
    /\ outcome = NoOutcome

InitSignal == InitEntry("signal")

InitStatus == InitEntry("status")

\* How far calculate_signal gets: 0 short series, 1 no strokes, 2 KeyError
\* in _analyze_trend, 3 in _detect_divergence, 4 in
\* _monitor_emotion_indicators, 5 the decision is made.
SignalStage(d, ind, q) ==
    IF Len(d) < position_lookback THEN 0
    ELSE IF q = <<>> THEN 1
    ELSE IF TrendKeyError(ind, q) # "" THEN 2
    ELSE IF DivergenceKeyError(d, ind, q) # "" THEN 3
    ELSE IF EmotionKeyError(ind) # "" THEN 4
    ELSE 5

\* The same for get_strategy_status, which goes on without strokes: 0 fewer
\* than status_min_bars bars, 2, 3, 4 the KeyErrors, 5 the status is returned.
StatusStage(d, ind, q) ==
    IF Len(d) < status_min_bars THEN 0
    ELSE IF TrendKeyError(ind, q) # "" THEN 2
    ELSE IF DivergenceKeyError(d, ind, q) # "" THEN 3
    ELSE IF EmotionKeyError(ind) # "" THEN 4
    ELSE 5

\* What the call raises at the stage, or that it returns.
StageOutcome(stage, d, ind, q) ==
    IF stage = 2 THEN Outcome("KeyError", TrendKeyError(ind, q), 0)
    ELSE IF stage = 3 THEN Outcome("KeyError", DivergenceKeyError(d, ind, q), 0)
    ELSE IF stage = 4 THEN Outcome("KeyError", EmotionKeyError(ind), 0)
    ELSE Outcome("return", "", 0)

\* calculate_signal(data): the length test, the strokes, then trend, position,
\* points, divergence, emotion and the decision; a KeyError leaves the rest
\* uncomputed.
CalculateSignal ==
    /\ pc = "signal"
    /\ LET f == identify_fractals(data)
           q == identify_strokes(f)
           stage == SignalStage(data, indicators, q)
           t == analyze_trend(indicators, q)
           pos == calculate_relative_position(data)
           points == identify_buy_sell_points(q, t)
           div == detect_divergence(data, indicators, q)
           emo == monitor_emotion_indicators(indicators.RSI)
       IN  /\ fractals' = IF stage >= 1 THEN f ELSE fractals
           /\ strokes' = IF stage >= 1 THEN q ELSE strokes
           /\ trend' = IF stage >= 3 THEN t ELSE trend
           /\ position' = IF stage >= 3 THEN pos ELSE position
           /\ buy_sell_points' = IF stage >= 3 THEN points ELSE buy_sell_points
           /\ divergence' = IF stage >= 4 THEN div ELSE divergence
           /\ emotion' = IF stage >= 5 THEN emo ELSE emotion
           /\ final_signal' = IF stage >= 5
                              THEN make_comprehensive_decision(t, pos, points, div, emo)
                              ELSE final_signal
           /\ outcome' = StageOutcome(stage, data, indicators, q)
    /\ pc' = "signal_done"
    /\ UNCHANGED <<treeVars, robotVars, data, indicators>>

\* get_strategy_status(data): insufficient_data under status_min_bars bars,
\* else fractals, strokes, trend, position, divergence and emotion.
GetStrategyStatus ==
    /\ pc = "status"
    /\ LET f == identify_fractals(data)
           q == identify_strokes(f)
           stage == StatusStage(data, indicators, q)
       IN  /\ fractals' = IF stage >= 2 THEN f ELSE fractals
           /\ strokes' = IF stage >= 2 THEN q ELSE strokes
           /\ trend' = IF stage >= 3 THEN analyze_trend(indicators, q) ELSE trend
           /\ position' = IF stage >= 3 THEN calculate_relative_position(data)
                          ELSE position
           /\ divergence' = IF stage >= 4 THEN detect_divergence(data, indicators, q)
                            ELSE divergence
           /\ emotion' = IF stage >= 5 THEN monitor_emotion_indicators(indicators.RSI)
                         ELSE emotion
           /\ outcome' = IF stage = 0 THEN Outcome("insufficient_data", "", 0)
                         ELSE StageOutcome(stage, data, indicators, q)
    /\ pc' = "status_done"
    /\ UNCHANGED <<treeVars, robotVars, data, buy_sell_points, final_signal, indicators>>

InitEntries == InitSignal \/ InitStatus \/ InitSize

NextEntries == CalculateSignal \/ GetStrategyStatus \/ CalculatePositionSize

SpecEntries == InitEntries /\ [][NextEntries]_vars

----------------------------------------------------------------------------
(* Adaptation passes without end, on sources reported by update_performance *)

\* Sources as constructed, of weights 1.0 and 5.0: no win rate is recorded.
DecaySources == {NewStrategy("a", w) : w \in InitialWeights}

InitDecay ==
    /\ strategies \in UNION {[1..n -> DecaySources] : n \in 1..MaxStrategies}
    /\ signal_history = <<>>
    /\ signals = <<>>
    /\ composite = NoSignal
    /\ passes = 0
    /\ NoPassInProgress
    /\ NoRobot
    /\ pc = "decay"
    /\ ChanIdle

\* optimize_weights, as often as it is called; passes counts up to MaxPasses.
\* Past the exact decimals of WScale a product is rounded down to the unit,
\* where the float rounds it to its precision.
OptimizeWeightsAgain ==
    /\ pc = "decay"
    /\ strategies' = [i \in 1..Len(strategies) |-> optimize_one(strategies[i])]
    /\ passes' = Min(passes + 1, MaxPasses)
    /\ UNCHANGED <<signal_history, signals, composite, pc, raceVars, robotVars, chanVars>>

NextDecay == UpdatePerformanceAt("decay", "decay") \/ OptimizeWeightsAgain

\* optimize_weights keeps being called.
SpecDecay == InitDecay /\ [][NextDecay]_vars /\ WF_vars(OptimizeWeightsAgain)

----------------------------------------------------------------------------
(* One optimize_weights pass and one calculate_composite_signal pass on one
   tree, statement by statement, in any interleaving *)

\* Sources of weight 1.0 or 2.0, enabled or not, with a win rate that makes
\* the pass shrink (0.0), keep (0.5) or grow (0.7) the weight.
RaceSources ==
    {[NewStrategy(name, w) EXCEPT !.win_rate = r, !.enabled = e] :
        name \in Names, w \in {WScale, WeightCap}, r \in {0, 50, 70}, e \in BOOLEAN}

\* Trees of 1 to MaxStrategies sources of different names.
RaceTrees ==
    {ss \in UNION {[1..n -> RaceSources] : n \in 1..MaxStrategies} :
        \A i, j \in 1..Len(ss) : ss[i].name = ss[j].name => i = j}

\* What a source's calculate_signal returns: nothing, a sell of confidence
\* 1.0 or a buy of confidence 0.5.
RaceSignals ==
    {NoSignal,
     TradingSignal("SELL", STRONG, Rat(100, 100)),
     TradingSignal("BUY", MEDIUM, Rat(50, 100))}

FusionRunning == fusion.phase \in {"collect", "total"}

AdaptRunning == adapt.phase \in {"read", "clamp"}

\* Both passes are called on a tree; neither has made a step.
InitRace ==
    /\ strategies \in RaceTrees
    /\ signal_history = <<>>
    /\ signals = <<>>
    /\ composite = NoSignal
    /\ passes = 0
    /\ fusion = FusionState("ready", 0, <<>>, 0, FALSE)
    /\ adapt = AdaptState("ready", 0)
    /\ NoRobot
    /\ pc = "race"
    /\ ChanIdle

\* A step of the fusion pass while the adaptation pass is under way, or the
\* converse: the passes overlap.
FusionStep(phase, i, pairs, total_weight) ==
    fusion' = FusionState(phase, i, pairs, total_weight,
                          fusion.overlapped \/ AdaptRunning)

AdaptStep(phase, i) ==
    /\ adapt' = AdaptState(phase, i)
    /\ fusion' = [fusion EXCEPT !.overlapped = @ \/ FusionRunning]

\* signals = []; total_weight = 0 (the tree has sources)
FusionBegin ==
    /\ pc = "race"
    /\ fusion.phase = "ready"
    /\ FusionStep("collect", 1, <<>>, 0)
    /\ UNCHANGED <<strategies, signal_history, signals, composite, passes, adapt,
                   pc, robotVars, chanVars>>

\* for strategy in self.strategies: a disabled source is passed over; else
\* signal = strategy.calculate_signal(data) and, if there is one,
\* signals.append((signal, strategy.weight)): the first read of the weight.
FusionCollect ==
    /\ pc = "race"
    /\ fusion.phase = "collect"
    /\ fusion.i <= Len(strategies)
    /\ LET strategy == strategies[fusion.i]
       IN  IF ~strategy.enabled
           THEN /\ signals' = Append(signals, NoSignal)
                /\ FusionStep("collect", fusion.i + 1, fusion.pairs, fusion.total_weight)
           ELSE \E signal \in RaceSignals :
                   /\ signals' = Append(signals, signal)
                   /\ IF signal = NoSignal
                      THEN FusionStep("collect", fusion.i + 1, fusion.pairs,
                                      fusion.total_weight)
                      ELSE FusionStep("total", fusion.i,
                                      Append(fusion.pairs,
                                             [signal |-> signal, weight |-> strategy.weight]),
                                      fusion.total_weight)
    /\ UNCHANGED <<strategies, signal_history, composite, passes, adapt, pc, robotVars, chanVars>>

\* total_weight += 1: the sources counted, not weighed.
AddToTotalUnweighted(total_weight, strategy) == total_weight + WScale

\* total_weight += strategy.weight
AddToTotal(total_weight, strategy) == total_weight + strategy.weight

\* total_weight += strategy.weight: the second read of the weight.
FusionTotal ==
    /\ pc = "race"
    /\ fusion.phase = "total"
    /\ FusionStep("collect", fusion.i + 1, fusion.pairs,
                  AddToTotal(fusion.total_weight, strategies[fusion.i]))
    /\ UNCHANGED <<strategies, signal_history, signals, composite, passes, adapt,
                   pc, robotVars, chanVars>>

\* The rest of the pass, from "if not signals" on, which reads no weight.
FusionDecide ==
    /\ pc = "race"
    /\ fusion.phase = "collect"
    /\ fusion.i > Len(strategies)
    /\ LET entry == FuseOver(fusion.pairs, fusion.total_weight)
       IN  /\ composite' = Returned(entry)
           /\ signal_history' = IF entry.signal_type = "HOLD" THEN signal_history
                                ELSE Append(signal_history, entry)
    /\ FusionStep("done", fusion.i, fusion.pairs, fusion.total_weight)
    /\ UNCHANGED <<strategies, signals, passes, adapt, pc, robotVars, chanVars>>

\* optimize_weights is entered: for strategy in self.strategies
AdaptBegin ==
    /\ pc = "race"
    /\ adapt.phase = "ready"
    /\ AdaptStep("read", 1)
    /\ UNCHANGED <<strategies, signal_history, signals, composite, passes, pc, robotVars, chanVars>>

\* win_rate = strategy.get_win_rate() and, above 0.6 or below 0.4, the first
\* statement of adjust_weight: the weight is multiplied, not yet clamped.
AdaptMultiply ==
    /\ pc = "race"
    /\ adapt.phase = "read"
    /\ adapt.i <= Len(strategies)
    /\ LET win_rate == get_win_rate(strategies[adapt.i])
       IN  IF win_rate > 60
           THEN /\ strategies' = [strategies EXCEPT ![adapt.i] = multiply_weight(@, 11)]
                /\ AdaptStep("clamp", adapt.i)
           ELSE IF win_rate < 40
           THEN /\ strategies' = [strategies EXCEPT ![adapt.i] = multiply_weight(@, 9)]
                /\ AdaptStep("clamp", adapt.i)
           ELSE /\ UNCHANGED strategies
                /\ AdaptStep("read", adapt.i + 1)
    /\ UNCHANGED <<signal_history, signals, composite, passes, pc, robotVars, chanVars>>

\* The second statement of adjust_weight.
AdaptClamp ==
    /\ pc = "race"
    /\ adapt.phase = "clamp"
    /\ strategies' = [strategies EXCEPT ![adapt.i] = clamp_weight(@)]
    /\ AdaptStep("read", adapt.i + 1)
    /\ UNCHANGED <<signal_history, signals, composite, passes, pc, robotVars, chanVars>>

\* The loop of optimize_weights is over.
AdaptEnd ==
    /\ pc = "race"
    /\ adapt.phase = "read"
    /\ adapt.i > Len(strategies)
    /\ passes' = passes + 1
    /\ AdaptStep("done", adapt.i)
    /\ UNCHANGED <<strategies, signal_history, signals, composite, pc, robotVars, chanVars>>

NextRace ==
    \/ FusionBegin
    \/ FusionCollect
    \/ FusionTotal
    \/ FusionDecide
    \/ AdaptBegin
    \/ AdaptMultiply
    \/ AdaptClamp
    \/ AdaptEnd

SpecRace == InitRace /\ [][NextRace]_vars

----------------------------------------------------------------------------
(* A TradingRobot on a tree of one source *)

Symbols == {"X", "Y"}

\* config.symbols: two symbols, or a symbol listed twice.
RobotConfigs == {<<"X", "Y">>, <<"X", "X">>}

\* The robot's strategy_tree: one enabled source of weight 1.0.
RobotTrees == {<<NewStrategy("a", WScale)>>}

\* What the source returns for a symbol's frame: nothing, a strong buy or a
\* strong sell, each fused into a composite of its type.
RobotSignals ==
    {NoSignal,
     TradingSignal("BUY", STRONG, Rat(90, 100)),
     TradingSignal("SELL", STRONG, Rat(100, 100))}

\* Frames: without row, with a last close of 0, with a last close of 10.
Frames == {Frame(0, 0), Frame(1, 0), Frame(1, 10)}

\* market_data: frames for some of the symbols S.
MarketData(S) == UNION {[T -> Frames] : T \in SUBSET S}

\* The arguments of update_position: 7 units are bought at 10 and sold at 20.
UpdateActions == {"BUY", "SELL", "HOLD"}
UpdateQuantities == {7}
UpdatePrices(action) == IF action = "SELL" THEN {20} ELSE {10}

\* The entries the robot's fusions may leave in signal_history.
RobotHistory == MaxHistory + 1

Range(seq) == {seq[i] : i \in 1..Len(seq)}

Called(method, fusions, raised) ==
    [method |-> method, fusions |-> fusions, raised |-> raised]

InitRobot ==
    /\ strategies \in RobotTrees
    /\ signal_history = <<>>
    /\ signals = <<>>
    /\ composite = NoSignal
    /\ passes = 0
    /\ NoPassInProgress
    /\ \E symbols \in RobotConfigs : robot = TradingRobot(symbols)
    /\ orders = <<>>
    /\ called = Called("__init__", 0, FALSE)
    /\ pc = "robot"
    /\ ChanIdle

Start ==
    /\ pc = "robot"
    /\ robot' = start(robot)
    /\ orders' = <<>>
    /\ called' = Called("start", 0, FALSE)
    /\ UNCHANGED <<treeVars, pc, chanVars>>

Stop ==
    /\ pc = "robot"
    /\ robot' = stop(robot)
    /\ orders' = <<>>
    /\ called' = Called("stop", 0, FALSE)
    /\ UNCHANGED <<treeVars, pc, chanVars>>

Pause ==
    /\ pc = "robot"
    /\ robot' = pause(robot)
    /\ orders' = <<>>
    /\ called' = Called("pause", 0, FALSE)
    /\ UNCHANGED <<treeVars, pc, chanVars>>

\* The tree as process_signals finds it.
TreeNow ==
    [history |-> signal_history, signals |-> signals, composite |-> composite]

\* What a process_signals call that ended as done leaves.
ProcessSignalsDone(done) ==
    /\ Len(done.run.history) <= RobotHistory
    /\ robot' = done.robot
    /\ orders' = done.run.orders
    /\ called' = Called("process_signals", done.run.fusions, done.run.raised)
    /\ signal_history' = done.run.history
    /\ signals' = done.run.signals
    /\ composite' = done.run.composite
    /\ UNCHANGED <<strategies, passes, raceVars, pc, chanVars>>

\* The sources are asked only about a symbol that has a frame: what they
\* would return about another is left at nothing.
AskedOnly(symbols, market_data, sigs) ==
    \A i \in 1..Len(symbols) :
        symbols[i] \notin DOMAIN market_data =>
            \A j \in 1..Len(sigs[i]) : sigs[i][j] = NoSignal

\* process_signals(market_data).  On a robot that is RUNNING the sources
\* return sigs[i] for the i-th configured symbol, and the fusion for the last
\* configured symbol raises if fails; on any other robot the market data are
\* not looked at.
ProcessSignals ==
    /\ pc = "robot"
    /\ IF Runs(robot)
       THEN \E market_data \in MarketData(Range(robot.symbols)),
               sigs \in [1..Len(robot.symbols) ->
                            SeqsOf(RobotSignals, Len(strategies))],
               fails \in BOOLEAN :
               /\ AskedOnly(robot.symbols, market_data, sigs)
               /\ \E done \in
                     {process_signals(robot, strategies, TreeNow, market_data,
                                      sigs,
                                      IF fails THEN Len(robot.symbols) ELSE 0)} :
                     ProcessSignalsDone(done)
       ELSE \E done \in
               {process_signals(robot, strategies, TreeNow, <<>>, <<>>, 0)} :
               ProcessSignalsDone(done)

\* update_position(symbol, action, quantity, price) for a configured symbol
UpdatePosition ==
    /\ pc = "robot"
    /\ \E symbol \in Range(robot.symbols), action \in UpdateActions,
          quantity \in UpdateQuantities :
       \E price \in UpdatePrices(action) :
          /\ action = "SELL" /\ symbol \in DOMAIN robot.positions
                => robot.trade_count < MaxTrades
          /\ robot' = update_position(robot, symbol, action, quantity, price)
    /\ orders' = <<>>
    /\ called' = Called("update_position", 0, FALSE)
    /\ UNCHANGED <<treeVars, pc, chanVars>>

NextRobot ==
    \/ Start
    \/ Stop
    \/ Pause
    \/ ProcessSignals
    \/ UpdatePosition

SpecRobot == InitRobot /\ [][NextRobot]_vars

----------------------------------------------------------------------------
(* Signals: claims *)

\* 0 <= q <= 1
UnitInterval(q) == q.den > 0 /\ 0 <= q.num /\ q.num <= q.den

\* C1: every signal the decision returns, and every composite signal fused
\* from sources with weights in [0.1, 2.0] and signal confidences in [0, 1],
\* has its confidence in [0, 1].
C1_ConfidenceInUnitInterval ==
    /\ final_signal # NoSignal => UnitInterval(final_signal.confidence)
    /\ (/\ composite # NoSignal
        /\ \A i \in 1..Len(strategies) : InRange(strategies[i].weight)
        /\ \A i \in 1..Len(signals) : UnitInterval(signals[i].confidence))
       => UnitInterval(composite.confidence)

\* The decision has accumulated 1.15 and returned a signal of confidence 1.
C1_Witness ==
    /\ pc = "done"
    /\ DecisionConfidence(trend, position, buy_sell_points, divergence, emotion) = 115
    /\ final_signal.confidence = Rat(1, 1)

\* Scenario D: two sources of weight 1.0, one returning buy / strong / 0.9
\* and the other sell / weak / 0.9, fused.
ScenarioD ==
    /\ pc = "done"
    /\ Len(strategies) = 2
    /\ \A i \in 1..2 : strategies[i].weight = WScale /\ strategies[i].enabled
    /\ {signals[i] : i \in 1..Len(signals)}
           = {TradingSignal("BUY", STRONG, Rat(90, 100)),
              TradingSignal("SELL", WEAK, Rat(90, 100))}

\* C3 as claimed: scenario D yields no composite signal.
C3_ScenarioD_NoComposite == ScenarioD => composite = NoSignal

\* C3, amended: scenario D yields a buy signal of strength strong and
\* confidence 0.9, from a buy score of 1.35 against a sell score of 0.45.
C3_ScenarioD_Buy ==
    ScenarioD =>
        /\ composite = TradingSignal("BUY", STRONG, Rat(90, 100))
        /\ Len(signal_history) = 1
        /\ signal_history[1].buy_score = Rat(135, 100)
        /\ signal_history[1].sell_score = Rat(45, 100)

C3_Witness == ScenarioD /\ composite.signal_type = "BUY"

\* The stroke's strength is h hundredths.
StrengthIs(k, h) == k.strength.num * 100 = h * k.strength.den

\* Scenario C: the last two strokes are an up-stroke of strength 0.10 and a
\* down-stroke of strength 0.40, the trend is up and the position low; the
\* classifier and the decision have run.
ScenarioC ==
    /\ pc = "done"
    /\ Len(strokes) >= 2
    /\ strokes[Len(strokes) - 1].direction = "up" /\ StrengthIs(strokes[Len(strokes) - 1], 10)
    /\ strokes[Len(strokes)].direction = "down" /\ StrengthIs(strokes[Len(strokes)], 40)
    /\ trend = "UP"
    /\ position = "LOW"

\* C4 as claimed: with exactly the two strokes of scenario C the classifier
\* reports buy_2 and the decision is a buy of confidence at least 0.7.
C4_TwoStrokes_Buy2 ==
    (ScenarioC /\ Len(strokes) = 2) =>
        /\ buy_sell_points = <<"BUY_2">>
        /\ final_signal.signal_type = "BUY"
        /\ RatGe(final_signal.confidence, 70)

\* C4, amended: with exactly the two strokes of scenario C the classifier
\* reports nothing and the decision is no signal; with a stroke before them
\* (three strokes) it reports buy_2 and the decision is a buy of confidence
\* 0.9, which is at least 0.7.
C4_ThreeStrokes_Buy2 ==
    /\ (ScenarioC /\ Len(strokes) = 2) =>
           buy_sell_points = <<>> /\ final_signal = NoSignal
    /\ (ScenarioC /\ Len(strokes) = 3) =>
           /\ buy_sell_points = <<"BUY_2">>
           /\ final_signal.signal_type = "BUY"
           /\ final_signal.confidence = Rat(90, 100)
           /\ RatGe(final_signal.confidence, 70)

C4_Witness == ScenarioC /\ Len(strokes) = 3 /\ final_signal # NoSignal

\* C5: every stroke joins two fractals of different types that are at least
\* min_k_for_stroke bars apart.
C5_StrokeShape ==
    \A k \in 1..Len(strokes) :
        /\ strokes[k].start_fractal.type # strokes[k].end_fractal.type
        /\ strokes[k].end_fractal.index - strokes[k].start_fractal.index >= 5

\* Four fractals gave one stroke, over a candidate too near that was skipped.
C5_Witness ==
    /\ pc = "trend"
    /\ Len(fractals) = 4
    /\ Len(strokes) = 1
    /\ strokes[1].end_index - strokes[1].start_index = 6
    /\ \E k \in 2..4 :
          /\ fractals[k].type # fractals[1].type
          /\ fractals[k].index - fractals[1].index = 3

\* The step 4 override applies to the decision's inputs.
OverrideApplies ==
    /\ emotion.extreme_emotion
    /\ \/ emotion.rsi_oversold /\ DecisionType(trend, buy_sell_points) = "BUY"
       \/ emotion.rsi_overbought /\ DecisionType(trend, buy_sell_points) = "SELL"

\* C8: when the step 4 override applies, the signal returned has strength
\* strong, whatever its confidence.
C8_OverrideForcesStrong ==
    (pc = "done" /\ final_signal # NoSignal /\ OverrideApplies)
        => final_signal.strength = STRONG

\* The fusion pass read off the state: the weight of the sources that
\* contributed, and the votes for a direction, over the enabled sources
\* whose signal is not None.
RECURSIVE C9_Total(_)
C9_Total(i) ==
    IF i = 0 THEN 0
    ELSE C9_Total(i - 1)
         + (IF strategies[i].enabled /\ signals[i] # NoSignal
            THEN strategies[i].weight ELSE 0)

RECURSIVE C9_Votes(_, _)
C9_Votes(i, d) ==
    IF i = 0 THEN 0
    ELSE C9_Votes(i - 1, d)
         + (IF strategies[i].enabled /\ signals[i].signal_type = d
            THEN ((signals[i].confidence.num * 100) \div signals[i].confidence.den)
                     * signals[i].strength * strategies[i].weight
            ELSE 0)

\* d's normalised score is above the other direction's and above 0.6.
C9_Wins(d, other) ==
    LET n == Len(signals)
    IN  /\ C9_Total(n) > 0
        /\ C9_Votes(n, d) > C9_Votes(n, other)
        /\ C9_Votes(n, d) * 100 > 60 * (100 * C9_Total(n))

\* C9: a fusion pass returns a buy exactly when the buy score is strictly
\* above the sell score and strictly above 0.6, a sell in the mirrored case,
\* and nothing otherwise.
C9_DirectionIffScoreWins ==
    (pc = "done" /\ Len(signals) = Len(strategies)) =>
        /\ composite.signal_type = "BUY" <=> C9_Wins("BUY", "SELL")
        /\ composite.signal_type = "SELL" <=> C9_Wins("SELL", "BUY")
        /\ composite = NoSignal <=> ~C9_Wins("BUY", "SELL") /\ ~C9_Wins("SELL", "BUY")

\* A pass whose buy score, above the sell score, was exactly 0.6 and which
\* returned nothing.
C9_Witness ==
    /\ pc = "done"
    /\ Len(signals) = Len(strategies)
    /\ Len(signals) >= 1
    /\ C9_Votes(Len(signals), "BUY") > C9_Votes(Len(signals), "SELL")
    /\ C9_Votes(Len(signals), "BUY") * 100 = 60 * (100 * C9_Total(Len(signals)))
    /\ composite = NoSignal

\* The winning score of the pass recorded last.
WinningScore ==
    LET e == signal_history[Len(signal_history)]
    IN  IF e.signal_type = "BUY" THEN e.buy_score ELSE e.sell_score

\* C10: a composite signal is strong when the winning score is >= 0.8,
\* medium when it is >= 0.7 and below 0.8, weak otherwise.
C10_StrengthCutoffs ==
    (pc = "done" /\ composite # NoSignal) =>
        composite.strength =
            IF RatGe(WinningScore, 80) THEN STRONG
            ELSE IF RatGe(WinningScore, 70) THEN MEDIUM
            ELSE WEAK

----------------------------------------------------------------------------
(* Fractals: claims *)

\* Bar i of the series is higher (lower) than its four neighbours.
C7_IsTop(i) ==
    /\ 2 <= i /\ i <= Len(data) - 3
    /\ \A j \in {i - 2, i - 1, i + 1, i + 2} : data[i + 1].high > data[j + 1].high

C7_IsBottom(i) ==
    /\ 2 <= i /\ i <= Len(data) - 3
    /\ \A j \in {i - 2, i - 1, i + 1, i + 2} : data[i + 1].low < data[j + 1].low

C7_StrictlyIncreasing ==
    \A i \in 1..(Len(data) - 1) :
        data[i].high < data[i + 1].high /\ data[i].low < data[i + 1].low

C7_WitnessIncreasing ==
    pc = "strokes" /\ Len(data) = 5 /\ C7_StrictlyIncreasing /\ fractals = <<>>

----------------------------------------------------------------------------
(* Buy and sell points: claims *)

\* The classifier has run on strokes whose latest is `latest` and whose prior
\* one is `prior`, in the trend t.
ClassifiedIn(t, latest, prior) ==
    /\ pc \in {"decision", "done"}
    /\ fractals # <<>>
    /\ trend = t
    /\ Len(strokes) >= 2
    /\ strokes[Len(strokes)].direction = latest
    /\ strokes[Len(strokes) - 1].direction = prior

\* The second-point test: at least 3 strokes, the latest of strength in
\* [0.3, 0.618].
C13_SecondTest ==
    /\ Len(strokes) >= 3
    /\ LET k == strokes[Len(strokes)].strength
       IN  k.den > 0 /\ 1000 * k.num >= 300 * k.den /\ 1000 * k.num <= 618 * k.den

\* The end prices of the strokes of direction dir among the last four.
C13_RecentEnds(dir) ==
    LET q == SubSeq(strokes, Len(strokes) - 3, Len(strokes))
        r == SelectSeq(q, LAMBDA k : k.direction = dir)
    IN  [i \in 1..Len(r) |-> r[i].end_fractal.price]

\* The third-point test: at least 4 strokes, the two most recent strokes of
\* direction dir ending strictly higher (up) or lower (down).
C13_ThirdTest(dir) ==
    /\ Len(strokes) >= 4
    /\ LET e == C13_RecentEnds(dir)
       IN  /\ Len(e) >= 2
           /\ IF dir = "up" THEN e[Len(e)] > e[Len(e) - 1]
              ELSE e[Len(e)] < e[Len(e) - 1]

Reported(kind) == \E i \in 1..Len(buy_sell_points) : buy_sell_points[i] = kind

\* C13: in an up trend with the latest stroke down and the prior stroke up,
\* buy_2 is reported exactly when the buy_2 test passes and buy_3 exactly when
\* the buy_3 test passes, so both when both pass; mirrored for sell_2 and
\* sell_3 in a down trend.
C13_PointsIndependent ==
    /\ ClassifiedIn("UP", "down", "up") =>
          /\ Reported("BUY_2") <=> C13_SecondTest
          /\ Reported("BUY_3") <=> C13_ThirdTest("up")
    /\ ClassifiedIn("DOWN", "up", "down") =>
          /\ Reported("SELL_2") <=> C13_SecondTest
          /\ Reported("SELL_3") <=> C13_ThirdTest("down")

----------------------------------------------------------------------------
(* Trend: claims *)

\* Among the last three strokes, more have direction dir than the other one.
C14_Majority(dir, other) ==
    /\ Len(strokes) >= 3
    /\ Cardinality({i \in (Len(strokes) - 2)..Len(strokes) : strokes[i].direction = dir})
         > Cardinality({i \in (Len(strokes) - 2)..Len(strokes) : strokes[i].direction = other})

\* C14: the trend is up exactly when there are at least 3 strokes, the
\* majority of the last 3 is up and MA_5 > MA_20 > MA_60; down exactly in the
\* mirrored case; sideways in every other case.
C14_TrendExact ==
    pc = "position" =>
        LET up == /\ C14_Majority("up", "down")
                  /\ indicators.MA_5 > indicators.MA_20
                  /\ indicators.MA_20 > indicators.MA_60
            down == /\ C14_Majority("down", "up")
                    /\ indicators.MA_5 < indicators.MA_20
                    /\ indicators.MA_20 < indicators.MA_60
        IN  trend = IF up THEN "UP" ELSE IF down THEN "DOWN" ELSE "SIDEWAYS"

\* An up majority against falling moving averages: sideways.
C14_Witness ==
    /\ pc = "position"
    /\ C14_Majority("up", "down")
    /\ indicators.MA_5 < indicators.MA_20
    /\ indicators.MA_20 < indicators.MA_60
    /\ trend = "SIDEWAYS"

\* Three up strokes over rising moving averages: up.
C14_WitnessUp ==
    /\ pc = "position"
    /\ Len(strokes) = 3
    /\ \A i \in 1..3 : strokes[i].direction = "up"
    /\ trend = "UP"

----------------------------------------------------------------------------
(* Position and size: claims *)

\* The multipliers of the claim, in tenths.
C15_Strength ==
    IF final_signal.strength = STRONG THEN 15
    ELSE IF final_signal.strength = MEDIUM THEN 12 ELSE 10

C15_Position ==
    IF final_signal.signal_type = "BUY" /\ position = "LOW" THEN 13
    ELSE IF final_signal.signal_type = "BUY" /\ position = "HIGH" THEN 7
    ELSE 10

\* C15: the size returned is min(0.5, 0.2 x strength multiplier x confidence
\* x position multiplier), the position multiplier being 1.0 for every sell;
\* for a confidence in [0, 1] it lies in [0, 0.5].
C15_SizeFormula ==
    (pc = "done" /\ Len(data) >= 1) =>
        LET c == (final_signal.confidence.num * 100) \div final_signal.confidence.den
            product == 2 * C15_Strength * c * C15_Position
        IN  /\ outcome.kind = "return"
            /\ outcome.value = IF product < 50000 THEN product ELSE 50000
            /\ UnitInterval(final_signal.confidence) =>
                  0 <= outcome.value /\ outcome.value <= 50000

\* A strong buy of confidence 1 at a low position: 0.2 x 1.5 x 1 x 1.3 = 0.39.
C15_Witness ==
    /\ pc = "done"
    /\ final_signal = TradingSignal("BUY", STRONG, Rat(1, 1))
    /\ position = "LOW"
    /\ outcome.value = 39000

\* A sell at a low position is sized with the multiplier 1.0, and a size
\* above 0.5 is capped.
C15_WitnessSellAndCap ==
    /\ pc = "done"
    /\ final_signal = TradingSignal("SELL", STRONG, Rat(2, 1))
    /\ position = "LOW"
    /\ outcome.value = 50000

\* The window of the position: the last position_lookback bars.
C20_Window == SubSeq(data, IF Len(data) > 120 THEN Len(data) - 119 ELSE 1, Len(data))

C20_FlatWindow ==
    /\ Len(data) >= 1
    /\ \A i \in 1..Len(C20_Window) :
          /\ C20_Window[i].high = C20_Window[1].high
          /\ C20_Window[i].low = C20_Window[1].high

\* C20: on a window whose highest high equals its lowest low the position is
\* medium, whatever the close, and the call returns.
C20_FlatWindowIsMedium ==
    (pc = "done" /\ C20_FlatWindow) =>
        position = "MEDIUM" /\ outcome.kind = "return"

\* A flat window of position_lookback bars, the bar before it not flat, and
\* a close below the window.
C20_Witness ==
    /\ pc = "done"
    /\ Len(data) = 121
    /\ data[1].high # data[1].low
    /\ C20_FlatWindow
    /\ data[Len(data)].close < data[Len(data)].low
    /\ position = "MEDIUM"

----------------------------------------------------------------------------
(* Frame: claims *)

\* Every source registered before and after the step has the weight it had:
\* the list is the same length with the same weights, or one source longer
\* with the old weights first, or the old list without the sources of a name.
WeightsKept ==
    \/ /\ Len(strategies') = Len(strategies)
       /\ \A i \in 1..Len(strategies) : strategies'[i].weight = strategies[i].weight
    \/ /\ Len(strategies') = Len(strategies) + 1
       /\ \A i \in 1..Len(strategies) : strategies'[i].weight = strategies[i].weight
    \/ \E name \in Names :
          strategies' = SelectSeq(strategies, LAMBDA s : s.name # name)

\* C16: a step that is not an optimize_weights pass (add_strategy,
\* remove_strategy, update_performance, calculate_composite_signal) leaves
\* every source's weight as it was.
C16_OnlyAdaptationChangesWeights ==
    [][passes' = passes => WeightsKept]_vars

\* update_performance has run on a source of weight 5.0 and win rate 0.7,
\* which kept its weight.
C16_Witness ==
    /\ pc = "done"
    /\ passes = 0
    /\ Len(strategies) = 2
    /\ strategies[1].trade_count = 1
    /\ strategies[1].win_rate = 70
    /\ strategies[1].weight = 5 * WScale

\* C17: calculate_composite_signal leaves the registered sources, their
\* weights, flags and counters, and the signal history unchanged, whether or
\* not it returns a composite signal.
C17_FusionPassIsPure ==
    [][pc = "fuse" => strategies' = strategies /\ signal_history' = signal_history]_vars

----------------------------------------------------------------------------
(* Entry points: claims *)

\* The series lacks a column the strategy reads.
LacksIndicator == indicators.columns # AllColumns

\* C18: calculate_signal on a series that lacks a required indicator column
\* (a moving average, MACD, MACD_Hist or RSI) ends in a MissingIndicatorError
\* naming a lacking column, never in a normal return.
C18_MissingIndicatorRaises ==
    (pc = "signal_done" /\ LacksIndicator)
        => /\ outcome.kind = "MissingIndicatorError"
           /\ outcome.field \in AllColumns \ indicators.columns

\* C19: after calculate_signal, calculate_position_size or
\* get_strategy_status on fewer than position_lookback bars, no position class
\* has been computed.
C19_NoClassOnShortSeries ==
    (pc \in {"signal_done", "status_done", "done"} /\ Len(data) < position_lookback)
        => position \notin Positions

----------------------------------------------------------------------------
(* Registry: claims *)

\* The listing has one entry per registered source.
OneEntryPerSource(ss) == Cardinality(DOMAIN get_strategy_performance(ss)) = Len(ss)

\* C21: at every step of the StrategyTree the listing of
\* get_strategy_performance has exactly one entry per registered source, and
\* a step that removes sources (remove_strategy) removes exactly one and
\* keeps the others, in order, as they were; this also with two sources
\* registered under one name.
C21_RegistryExact ==
    [][/\ OneEntryPerSource(strategies')
       /\ Len(strategies') < Len(strategies)
            => \E i \in 1..Len(strategies) :
                  strategies' = [k \in 1..(Len(strategies) - 1) |->
                                    IF k < i THEN strategies[k] ELSE strategies[k + 1]]]_vars

----------------------------------------------------------------------------
(* Strokes: claims *)

Abs(x) == IF x < 0 THEN -x ELSE x

\* C22: after _identify_strokes every stroke it built has the strength
\* |end price - start price| / start price, which is not negative, also when
\* a top fractal lies below the bottom fractal before it.
C22_StrengthIsMagnitude ==
    pc \in {"trend", "done"} => \A i \in 1..Len(strokes) :
        /\ strokes[i].strength.den = strokes[i].start_fractal.price
        /\ strokes[i].strength.num
             = Abs(strokes[i].end_fractal.price - strokes[i].start_fractal.price)
        /\ strokes[i].strength.num >= 0

\* Of the strokes q[i], q[i + 1], q[i + 2], how many are up.
UpsOfThree(q, i) == Cardinality({k \in i..(i + 2) : q[k].direction = "up"})

\* C24: in the strokes _identify_strokes built, each stroke starts at the
\* fractal where the stroke before it ended, consecutive strokes have opposite
\* directions, and of any 3 consecutive strokes 2 are up and 1 down or 1 up
\* and 2 down.
C24_StrokesAlternate ==
    pc \in {"trend", "done"} =>
        /\ \A i \in 1..(Len(strokes) - 1) :
              /\ strokes[i + 1].start_fractal = strokes[i].end_fractal
              /\ strokes[i + 1].direction # strokes[i].direction
        /\ \A i \in 1..(Len(strokes) - 2) : UpsOfThree(strokes, i) \in {1, 2}

\* _identify_strokes built 3 strokes of 4 fractals.
C24_Witness ==
    /\ pc = "trend"
    /\ Len(strokes) = 3
    /\ strokes = identify_strokes(fractals)

\* C25: after calculate_signal and after get_strategy_status the divergence
\* is none, and _detect_divergence returns none on the strokes that
\* _identify_strokes built of the series: no divergence result is reachable
\* in the pipeline.
C25_NoDivergenceInPipeline ==
    pc \in {"signal_done", "status_done"} =>
        /\ divergence = "None"
        /\ detect_divergence(data, indicators,
                             identify_strokes(identify_fractals(data))) = "None"

\* calculate_signal ran the detector on 2 strokes or more of a long enough
\* series whose last stroke made a new extreme in price that the MACD did
\* not make.
C25_Witness ==
    /\ pc = "signal_done"
    /\ outcome.kind = "return"
    /\ Len(data) >= position_lookback
    /\ Len(strokes) >= 2
    /\ Diverges(indicators, strokes[Len(strokes) - 1], strokes[Len(strokes)])

----------------------------------------------------------------------------
(* Pipeline: claims *)

\* C23: calculate_signal never ends with a signal: an up trend has its latest
\* stroke up and a down trend down, so that _identify_buy_sell_points, which
\* wants the latest stroke against the trend, finds no point and the decision
\* stays hold.
C23_NoSignalFromPipeline ==
    pc = "signal_done" =>
        /\ final_signal = NoSignal
        /\ buy_sell_points = <<>>
        /\ trend = "UP" => Last(strokes).direction = "up"
        /\ trend = "DOWN" => Last(strokes).direction = "down"

\* calculate_signal ran to its decision in an up trend.
C23_Witness ==
    /\ pc = "signal_done"
    /\ outcome.kind = "return"
    /\ trend = "UP"
    /\ Len(strokes) >= 3
    /\ indicators.columns = AllColumns

\* The same in a down trend.
C23_WitnessDown ==
    /\ pc = "signal_done"
    /\ outcome.kind = "return"
    /\ trend = "DOWN"
    /\ indicators.columns = AllColumns

----------------------------------------------------------------------------
(* Decision: claims *)

\* The confidence steps 1 to 4 accumulate on the inputs of the decision.
Accumulated == DecisionConfidence(trend, position, buy_sell_points, divergence, emotion)

Directional == DecisionType(trend, buy_sell_points) \in {"BUY", "SELL"}

\* C26: after _make_comprehensive_decision with the direction buy or sell,
\* the accumulated confidence is at least 0.6; the decision then returns a
\* signal, the confidence < 0.5 filter suppressing none, whose strength is
\* never weak: strong exactly when the accumulated confidence passes the
\* >= 0.8 test, medium otherwise.
C26_DirectionalIsConfident ==
    (pc = "done" /\ Directional) =>
        /\ Accumulated >= 60
        /\ final_signal # NoSignal
        /\ final_signal.signal_type = DecisionType(trend, buy_sell_points)
        /\ final_signal.strength # WEAK
        /\ final_signal.strength = STRONG <=> ReachesStrong(Accumulated)
        /\ final_signal.strength = MEDIUM <=> ~ReachesStrong(Accumulated)

\* The decision was a buy at a HIGH position with nothing else in its
\* favour: the accumulated confidence is 0.6, the least there is.
C26_Witness ==
    /\ pc = "done"
    /\ final_signal.signal_type = "BUY"
    /\ position = "HIGH"
    /\ Accumulated = 60
    /\ final_signal.strength = MEDIUM

\* The decision was a sell the extreme RSI made strong at step 4, with the
\* accumulated confidence 0.5 + 0.2 + 0.1: step 5 makes it medium.
C26_WitnessStep5 ==
    /\ pc = "done"
    /\ final_signal.signal_type = "SELL"
    /\ emotion.extreme_emotion
    /\ Accumulated = 80
    /\ final_signal.strength = MEDIUM

----------------------------------------------------------------------------
(* Decay: claims *)

AllAtFloor == \A i \in 1..Len(strategies) : strategies[i].weight = WeightFloor

NoWinRate == \A i \in 1..Len(strategies) : get_win_rate(strategies[i]) = 0

\* Every source's weight is kept or multiplied by 0.9 within the bounds.
ShrinksOnly ==
    \A i \in 1..Len(strategies) :
        strategies'[i].weight \in {strategies[i].weight,
                                   adjust_weight(strategies[i], 9).weight}

C27_WitnessFloor ==
    /\ pc = "decay"
    /\ passes > 0
    /\ AllAtFloor
    /\ \E i \in 1..Len(strategies) : strategies[i].total_pnl > 0

----------------------------------------------------------------------------
(* Interleaved passes: claims *)

\* The fusion pass normalised by the sum of the weights it applied, and its
\* composite has a confidence within [0, 1].
TotalMatchesApplied ==
    /\ fusion.total_weight = TotalWeight(fusion.pairs)
    /\ composite.confidence.num >= 0
    /\ composite.confidence.num <= composite.confidence.den

\* C28, as stated: in every interleaving of the statements of one
\* optimize_weights pass and one calculate_composite_signal pass, the finished
\* fusion pass normalised by the sum of the weights it applied and its
\* composite confidence is within [0, 1].
C28_AnyInterleaving ==
    fusion.phase = "done" => TotalMatchesApplied

\* C28, amended: the same when the two passes did not overlap, one having
\* run to its end before the other began.
C28_Serialized ==
    (fusion.phase = "done" /\ ~fusion.overlapped) => TotalMatchesApplied

\* A finished fusion pass whose composite has a confidence above 1.
C28_ConfidenceAboveOne ==
    /\ fusion.phase = "done"
    /\ composite.confidence.num > composite.confidence.den

\* The adaptation pass changed a weight, then the fusion pass ran and
\* returned a composite.
C28_Witness ==
    /\ fusion.phase = "done"
    /\ adapt.phase = "done"
    /\ ~fusion.overlapped
    /\ composite # NoSignal
    /\ \E i \in 1..Len(fusion.pairs) : fusion.pairs[i].weight \notin {WScale, WeightCap}

----------------------------------------------------------------------------
(* Robot: claims *)

\* The order is consistent with the positions: a BUY for a symbol without
\* recorded position, a SELL for a symbol with one and of its quantity.
MatchesPositions(order, positions) ==
    /\ order.action = "BUY" => order.symbol \notin DOMAIN positions
    /\ order.action = "SELL" =>
          /\ order.symbol \in DOMAIN positions
          /\ order.quantity = positions[order.symbol].quantity

\* C29: along any sequence of process_signals and update_position calls (and
\* of start, stop and pause), process_signals leaves the recorded positions
\* as they were, every BUY order it returns is for a symbol without recorded
\* position, and every SELL order it returns is for a symbol with a recorded
\* position and carries the recorded quantity.
C29_OrdersMatchPositions ==
    [][called'.method = "process_signals" =>
          /\ robot'.positions = robot.positions
          /\ \A i \in 1..Len(orders') :
                MatchesPositions(orders'[i], robot.positions)]_vars

\* process_signals has returned a BUY for the symbol without position and a
\* SELL of the 7 recorded for the other symbol.
C29_Witness ==
    /\ called.method = "process_signals"
    /\ Len(orders) = 2
    /\ orders[1].action = "BUY"
    /\ orders[1].symbol \notin DOMAIN robot.positions
    /\ orders[2].action = "SELL"
    /\ orders[2].quantity = 7
    /\ robot.positions[orders[2].symbol].quantity = 7

\* process_signals has returned two BUY orders for one symbol, listed twice
\* in config.symbols.
C29_WitnessTwice ==
    /\ called.method = "process_signals"
    /\ Len(orders) = 2
    /\ orders[1].action = "BUY"
    /\ orders[2] = orders[1]

\* C30: process_signals of a robot that is not RUNNING returns no order,
\* calls no fusion and changes nothing; an exception raised inside
\* process_signals leaves the status ERROR; the status leaves ERROR only by
\* start, stop or pause; and start leaves the status RUNNING and the error
\* message empty.
C30_ErrorUntilRestarted ==
    [][/\ called'.method = "process_signals" /\ robot.status # "RUNNING" =>
             /\ orders' = <<>>
             /\ called'.fusions = 0
             /\ ~called'.raised
             /\ robot' = robot
             /\ UNCHANGED treeVars
       /\ called'.raised =>
             /\ called'.method = "process_signals"
             /\ robot'.status = "ERROR"
       /\ robot.status = "ERROR" /\ robot'.status # "ERROR" =>
             called'.method \in {"start", "stop", "pause"}
       /\ called'.method = "start" =>
             robot'.status = "RUNNING" /\ robot'.error_message = ""]_vars

\* process_signals has been called on a robot in ERROR.
C30_Witness ==
    /\ robot.status = "ERROR"
    /\ called = Called("process_signals", 0, FALSE)

\* An exception inside process_signals has left the robot in ERROR, with the
\* order gathered before it returned.
C30_WitnessRaised ==
    /\ robot.status = "ERROR"
    /\ called.raised
    /\ Len(orders) = 1

\* start has returned a robot from ERROR to RUNNING.
C30_WitnessRestarted ==
    /\ robot.status = "RUNNING"
    /\ robot.error_message = ""
    /\ called.method = "start"
    /\ Len(signal_history) > 0

----------------------------------------------------------------------------
(* Divergence: claims *)

\* The detector has run on at least two strokes, the last two of direction
\* dir, the later end price further in that direction and the MACD at the
\* later end on the other side of the MACD at the earlier end.
DivergingPair(dir) ==
    /\ pc \in {"decision", "done"}
    /\ Len(strokes) >= 2
    /\ strokes[Len(strokes)].direction = dir
    /\ strokes[Len(strokes) - 1].direction = dir
    /\ LET p1 == strokes[Len(strokes) - 1].end_fractal.price
           p2 == strokes[Len(strokes)].end_fractal.price
           m1 == macd_at(indicators, strokes[Len(strokes) - 1].end_index)
           m2 == macd_at(indicators, strokes[Len(strokes)].end_index)
       IN  IF dir = "up" THEN p2 > p1 /\ m2 < m1 ELSE p2 < p1 /\ m2 > m1

\* C11: on two consecutive up strokes with a higher end price and a lower
\* oscillator value the detector returns the bearish divergence, on two down
\* strokes with a lower end price and a higher oscillator value the bullish
\* divergence, and otherwise none.
C11_DivergenceLabels ==
    (pc \in {"decision", "done"} /\ Len(data) >= divergence_min_bars) =>
        divergence = IF DivergingPair("up") THEN "bearish_divergence"
                     ELSE IF DivergingPair("down") THEN "bullish_divergence"
                     ELSE "None"

\* What the divergence passed to the decision added to the confidence.
DivergenceBonus ==
    DecisionConfidence(trend, position, buy_sell_points, divergence, emotion)
        - DecisionConfidence(trend, position, buy_sell_points, "None", emotion)

\* C12: with the detector's result passed unchanged to the decision, a
\* divergence found on a down pair adds 0.15 exactly when the direction is
\* buy, one found on an up pair exactly when the direction is sell, and
\* nothing else adds anything.
C12_DivergenceConfirmsReversal ==
    pc = "done" =>
        LET found(dir) == DivergingPair(dir) /\ Len(data) >= divergence_min_bars
            direction == DecisionType(trend, buy_sell_points)
        IN  /\ DivergenceBonus \in {0, 15}
            /\ DivergenceBonus = 15 <=>
                  \/ found("down") /\ direction = "BUY"
                  \/ found("up") /\ direction = "SELL"

\* A buy decision confirmed by a divergence on a down pair.
C12_Witness ==
    /\ pc = "done"
    /\ DivergingPair("down")
    /\ divergence # "None"
    /\ final_signal.signal_type = "BUY"
    /\ final_signal.confidence = Rat(85, 100)

\* The arithmetic of a pass is exact in the model's fixed point.
ExactWeights ==
    \A i \in 1..Len(strategies) : passes < MaxPasses => strategies[i].weight % 10 = 0

====
